---- MODULE Spec2Model ----
(***************************************************************************)
(* A model of the plugin runtime and controller layer of                   *)
(* AI_NovelGenerator: the plugin event system, the crash handler, the      *)
(* performance monitor, the plugin registry, the version compatibility     *)
(* manager, the base controller, the configuration manager and the         *)
(* configuration controller's validation.                                  *)
(*                                                                         *)
(* Every component has its own next-state relation and specification over  *)
(* the shared variables; a component's actions leave the variables of the  *)
(* other components unchanged.                                             *)
(***************************************************************************)
EXTENDS Integers, Sequences, FiniteSets, TLC

(***************************************************************************)
(* Bounds of the model                                                     *)
(***************************************************************************)
\* number of register_handler calls explored
MaxReg == 2
\* number of emissions explored together with handler registration
MaxEmit == 2
\* number of emissions explored on a system without handlers
MaxHistEmit == 1500

\* clock ticks in one hour (the resolution of the crash handler's clock)
TicksPerHour == 2
\* number of handle_crash invocations explored, over all plugins
MaxCrashes == 6
\* number of them explored for the second plugin
MaxOtherCrashes == 1

\* clock ticks in one minute (the resolution of the performance monitor's clock)
TicksPerMinute == 1
\* number of start_monitoring calls explored in one window
MaxCalls == 1002
\* the clock is advanced only while a call history holds at most this many calls
MaxAgedCalls == 2

\* longest list of names given to resolve_load_order
MaxNames == 3
\* resolve_load_order calls explored on one registry content
MaxResolves == 1

\* most listeners registered on one controller, over all its event types
MaxListeners == 2
\* most error handlers added to one controller
MaxErrorHandlers == 1

\* largest number in a segment of a version string
MaxSegment == 1
\* most compatibility rules registered in one version manager
MaxRules == 1

\* most generation callbacks added to one generation controller
MaxCallbacks == 2

\* project directories known to one novel controller
MaxPaths == 11
\* projects opened again after another project was opened
MaxReopens == 1

\* invocations of one recovery callback explored within one handle_crash call
MaxCallbackRuns == 4

\* handlers registered, and emissions made, where handlers change the
\* handler list of the event being dispatched
MaxDispatchRegs == 3
MaxDispatches == 2

\* load_plugin calls explored over the threads of the Plugin Manager UI
MaxThreadLoads == 4

\* emissions explored on an event system used by several threads
MaxThreadEmits == 3
\* deepest nesting of emissions issued by handlers
MaxNesting == 2

\* handle_crash calls explored on a crash handler used by several threads
MaxThreadCrashes == 3

(***************************************************************************)
(* Program constants                                                       *)
(***************************************************************************)
\* PluginEventSystem._max_history
max_history == 1000

\* ResourceLimits.max_calls_per_minute (the default)
max_calls_per_minute == 1000
\* the maxlen of a plugin's call history deque
call_history_maxlen == 1000

\* EventPriority values: LOW = 1, NORMAL = 2, HIGH = 3, CRITICAL = 4
EventPriority == 1..4

Plugins == {"pA", "pB"}
EventNames == {"app.startup", "config.change"}

VARIABLES
    ev_handlers,      \* PluginEventSystem._handlers: event name -> list of EventHandler
    ev_history,       \* PluginEventSystem._event_history
    ev_count,         \* number of events emitted so far (the identity of an Event object)
    ev_regs,          \* number of register_handler calls so far (the identity of a callable)
    ev_invoked,       \* the handlers invoked by the latest emission, in invocation order
    ev_results,       \* the result list returned by the latest emission
    ev_stats          \* PluginEventSystem._stats: the event and handler-call counters

ev_vars == <<ev_handlers, ev_history, ev_count, ev_regs, ev_invoked, ev_results, ev_stats>>

VARIABLES
    crash_records,       \* PluginCrashHandler._crash_records: plugin -> list of CrashRecord
    crash_counts,        \* PluginCrashHandler._crash_counts (a missing key reads as 0)
    disabled_plugins,    \* PluginCrashHandler._disabled_plugins
    restart_attempts,    \* PluginCrashHandler._restart_attempts (a missing key reads as 0)
    recovery_callbacks,  \* the plugins with an entry in _recovery_callbacks
    plugin_policies,     \* PluginCrashHandler._plugin_policies ("default": no entry)
    ch_calls,            \* number of handle_crash invocations so far, per plugin
    ch_last              \* the latest handle_crash call and the calls nested in it

ch_vars == <<crash_records, crash_counts, disabled_plugins, restart_attempts,
             recovery_callbacks, plugin_policies, ch_calls, ch_last>>

VARIABLES
    resource_limits,  \* PluginPerformanceMonitor._resource_limits: plugin -> {} (no entry) or {limits}
    call_history,     \* PluginPerformanceMonitor._call_history: plugin -> deque of call times
    pm_last,          \* what the latest start_monitoring call of a plugin did
    pm_run            \* the start_monitoring calls of a plugin at the current clock reading

pm_vars == <<resource_limits, call_history, pm_last, pm_run>>

VARIABLES
    reg_plugins,       \* PluginRegistry._plugins: name -> metadata
    reg_dependencies,  \* PluginRegistry._dependencies: name -> set of names
    rl_last            \* the latest resolve_load_order call on this registry content

reg_vars == <<reg_plugins, reg_dependencies, rl_last>>

VARIABLES
    ctl_state,           \* BaseController.state
    ctl_event_handlers,  \* BaseController._event_handlers: event type -> list of listeners
    ctl_error_handlers,  \* BaseController._error_handlers
    ctl_view,            \* BaseController._view
    ctl_last             \* the latest emission on this controller

ctl_vars == <<ctl_state, ctl_event_handlers, ctl_error_handlers, ctl_view, ctl_last>>

VARIABLES
    vm_constructed,       \* a VersionCompatibilityManager has been constructed
    app_version,          \* VersionCompatibilityManager.app_version
    compatibility_rules,  \* VersionCompatibilityManager._compatibility_rules
    vm_last               \* the latest check_compatibility call

vm_vars == <<vm_constructed, app_version, compatibility_rules, vm_last>>

VARIABLES
    llm_configs,   \* ConfigurationManager._llm_configs of the manager in use
    config_file,   \* the configuration document behind config_file
    fresh_configs, \* _llm_configs of the manager constructed latest on the same file
    cm_last        \* the latest update_llm_config, and how far it got to a fresh manager

cm_vars == <<llm_configs, config_file, fresh_configs, cm_last>>

VARIABLES
    vc_config,  \* the config given to ConfigController._validate_llm_config
    vc_result   \* what the call returned or raised ("none": not called yet)

vc_vars == <<vc_config, vc_result>>

VARIABLES
    gen_model,         \* GenerationController._model: attached or not, and its data
    gen_current_task,  \* GenerationController._current_task
    gen_callbacks,     \* GenerationController._generation_callbacks: task type -> number of callbacks
    gen_run,           \* the generation run dispatched to the background worker
    gen_last           \* what the latest generation run did so far

gen_vars == <<gen_model, gen_current_task, gen_callbacks, gen_run, gen_last>>

VARIABLES
    lm_translations,      \* LanguageManager.translations: locale -> catalog
    lm_current_language,  \* LanguageManager.current_language
    lm_last               \* the latest translate call and what it returned

lm_vars == <<lm_translations, lm_current_language, lm_last>>

VARIABLES
    mgr_registry,  \* the metadata the manager's registry holds for each plugin name
    mgr_loaded,    \* PluginManager._loaded_plugins (the names)
    mgr_modules,   \* PluginManager._plugin_modules (the names)
    mgr_handlers,  \* _handlers of the manager's own PluginEventSystem
    mgr_last       \* what the latest operation of the manager did

mgr_vars == <<mgr_registry, mgr_loaded, mgr_modules, mgr_handlers, mgr_last>>

VARIABLES
    init_last   \* the latest initialize() call of a controller and what it returned

init_vars == <<init_last>>

VARIABLES
    tl_config_cache,        \* ConfigController._config_cache: its llm_configs and last_llm_config_name
    tl_current_llm_config,  \* ConfigController._current_llm_config
    tl_last                 \* the latest test_llm_configuration call and what it did

tl_vars == <<tl_config_cache, tl_current_llm_config, tl_last>>

VARIABLES
    et_lock,   \* PluginEventSystem._lock, a threading.RLock: its owner and recursion count
    et_stack,  \* per thread, its emit_event_object calls in progress, the innermost last
    et_trace,  \* the handler invocations so far: the emission and the thread of each
    et_last    \* the emit_event_object call that returned latest

et_vars == <<et_lock, et_stack, et_trace, et_last>>

VARIABLES
    ct_keys,    \* the plugins that have a key in PluginCrashHandler._crash_records
    ct_pc,      \* per thread, where it is in handle_crash
    ct_local,   \* per thread, the values handle_crash has read into its locals
    ct_calls    \* the handle_crash calls begun and the handle_crash calls returned

ct_vars == <<ct_keys, ct_pc, ct_local, ct_calls>>

VARIABLES
    nv_current_project,  \* NovelController._current_project
    nv_project_history,  \* NovelController._project_history
    nv_opened,           \* the number of project directories opened so far
    nv_reopens,          \* the number of times an earlier project was opened again
    nv_last              \* what the latest operation of the novel controller did

nv_vars == <<nv_current_project, nv_project_history, nv_opened, nv_reopens, nv_last>>

VARIABLES
    lt_pc,        \* where each thread is in load_plugin
    lt_loaded,    \* PluginManager._loaded_plugins, as the threads see it
    lt_handlers,  \* the handlers of the plugin in the event system, per event
    lt_counts,    \* the load_plugin calls begun, and what they did so far
    lt_returned   \* what the latest load_plugin call of each thread returned

lt_vars == <<lt_pc, lt_loaded, lt_handlers, lt_counts, lt_returned>>

VARIABLES
    dp_handlers,  \* PluginEventSystem._handlers[event_name], [] when the name is absent
    dp_iter,      \* the for loop of emit_event_object: its list, its index, its progress
    dp_regs,      \* the handlers registered so far
    dp_count,     \* the emissions made so far
    dp_last       \* the latest emission: the handlers at its start, the ones it invoked

dp_vars == <<dp_handlers, dp_iter, dp_regs, dp_count, dp_last>>

vars == <<ev_vars, ch_vars, pm_vars, reg_vars, ctl_vars, vm_vars, cm_vars, vc_vars, gen_vars,
          lm_vars, mgr_vars, init_vars, tl_vars, et_vars, ct_vars, nv_vars, lt_vars, dp_vars>>

\* the variables of the components other than the named one
nonEvents == <<ch_vars, pm_vars, reg_vars, ctl_vars, vm_vars, cm_vars, vc_vars,
               gen_vars, lm_vars, mgr_vars, init_vars, tl_vars, et_vars, ct_vars, nv_vars, lt_vars, dp_vars>>

nonCrash == <<ev_vars, pm_vars, reg_vars, ctl_vars, vm_vars, cm_vars, vc_vars,
              gen_vars, lm_vars, mgr_vars, init_vars, tl_vars, et_vars, ct_vars, nv_vars, lt_vars, dp_vars>>

nonPerf == <<ev_vars, ch_vars, reg_vars, ctl_vars, vm_vars, cm_vars, vc_vars,
             gen_vars, lm_vars, mgr_vars, init_vars, tl_vars, et_vars, ct_vars, nv_vars, lt_vars, dp_vars>>

nonRegistry == <<ev_vars, ch_vars, pm_vars, ctl_vars, vm_vars, cm_vars, vc_vars,
                 gen_vars, lm_vars, mgr_vars, init_vars, tl_vars, et_vars, ct_vars, nv_vars, lt_vars, dp_vars>>

nonController == <<ev_vars, ch_vars, pm_vars, reg_vars, vm_vars, cm_vars, vc_vars,
                   gen_vars, lm_vars, mgr_vars, init_vars, tl_vars, et_vars, ct_vars, nv_vars, lt_vars, dp_vars>>

nonVersion == <<ev_vars, ch_vars, pm_vars, reg_vars, ctl_vars, cm_vars, vc_vars,
                gen_vars, lm_vars, mgr_vars, init_vars, tl_vars, et_vars, ct_vars, nv_vars, lt_vars, dp_vars>>

nonConfig == <<ev_vars, ch_vars, pm_vars, reg_vars, ctl_vars, vm_vars, vc_vars,
               gen_vars, lm_vars, mgr_vars, init_vars, tl_vars, et_vars, ct_vars, nv_vars, lt_vars, dp_vars>>

nonValidate == <<ev_vars, ch_vars, pm_vars, reg_vars, ctl_vars, vm_vars, cm_vars,
                 gen_vars, lm_vars, mgr_vars, init_vars, tl_vars, et_vars, ct_vars, nv_vars, lt_vars, dp_vars>>

\* a generation controller is a BaseController: its state, listeners and view
\* are those of the controller
nonGeneration == <<ev_vars, ch_vars, pm_vars, reg_vars, vm_vars, cm_vars, vc_vars,
                   lm_vars, mgr_vars, init_vars, tl_vars, et_vars, ct_vars, nv_vars, lt_vars, dp_vars>>

nonLanguage == <<ev_vars, ch_vars, pm_vars, reg_vars, ctl_vars, vm_vars, cm_vars,
                 vc_vars, gen_vars, mgr_vars, init_vars, tl_vars, et_vars, ct_vars, nv_vars, lt_vars, dp_vars>>

\* the manager acts on its crash handler and reads its version manager
nonManager == <<ev_vars, pm_vars, reg_vars, ctl_vars, vm_vars, cm_vars, vc_vars,
                gen_vars, lm_vars, init_vars, tl_vars, et_vars, ct_vars, nv_vars, lt_vars, dp_vars>>

\* initialize() acts on the controller
nonInitialize == <<ev_vars, ch_vars, pm_vars, reg_vars, vm_vars, cm_vars, vc_vars,
                   gen_vars, lm_vars, mgr_vars, tl_vars, et_vars, ct_vars, nv_vars, lt_vars, dp_vars>>

\* a configuration controller is a BaseController
nonLLMTest == <<ev_vars, ch_vars, pm_vars, reg_vars, vm_vars, cm_vars, vc_vars, gen_vars, lm_vars, mgr_vars, init_vars, et_vars, ct_vars, nv_vars, lt_vars, dp_vars>>

\* the threads act on the event system
nonEventThreads == <<ch_vars, pm_vars, reg_vars, ctl_vars, vm_vars, cm_vars, vc_vars, gen_vars, lm_vars, mgr_vars, init_vars, tl_vars, ct_vars, nv_vars, lt_vars, dp_vars>>

\* the threads act on the crash handler
nonCrashThreads == <<ev_vars, pm_vars, reg_vars, ctl_vars, vm_vars, cm_vars, vc_vars, gen_vars, lm_vars, mgr_vars, init_vars, tl_vars, et_vars, nv_vars, lt_vars, dp_vars>>

\* a novel controller is a BaseController
nonNovel == <<ev_vars, ch_vars, pm_vars, reg_vars, vm_vars, cm_vars, vc_vars, gen_vars, lm_vars, mgr_vars, init_vars, tl_vars, et_vars, ct_vars, lt_vars, dp_vars>>

\* the threads act on one plugin manager
nonLoadThreads == <<ev_vars, ch_vars, pm_vars, reg_vars, ctl_vars, vm_vars, cm_vars, vc_vars, gen_vars, lm_vars, mgr_vars, init_vars, tl_vars, et_vars, ct_vars, nv_vars, dp_vars>>

\* one event name of one event system
nonDispatch == <<ev_vars, ch_vars, pm_vars, reg_vars, ctl_vars, vm_vars, cm_vars, vc_vars, gen_vars, lm_vars, mgr_vars, init_vars, tl_vars, et_vars, ct_vars, nv_vars, lt_vars>>

(***************************************************************************)
(* Helpers on sequences                                                    *)
(***************************************************************************)
Min(a, b) == IF a < b THEN a ELSE b

Range(s) == {s[i] : i \in 1..Len(s)}

RECURSIVE FilterSeq(_, _)
\* [x for x in s if x in keep]
FilterSeq(s, keep) ==
    IF s = <<>> THEN <<>>
    ELSE IF Head(s) \in keep THEN <<Head(s)>> \o FilterSeq(Tail(s), keep)
         ELSE FilterSeq(Tail(s), keep)

(***************************************************************************)
(* PluginEventSystem (plugins/events.py)                                   *)
(***************************************************************************)

\* list.sort(key=lambda h: h.priority.value, reverse=True): a stable sort,
\* computed by inserting the elements one by one, each behind the elements
\* whose priority is at least its own.
InsertByPriority(sorted, h) ==
    LET k == Cardinality({i \in 1..Len(sorted) : sorted[i].priority >= h.priority})
        \* the elements of sorted with priority >= h.priority form a prefix
    IN  SubSeq(sorted, 1, k) \o <<h>> \o SubSeq(sorted, k + 1, Len(sorted))

RECURSIVE SortFrom(_, _)
SortFrom(done, rest) ==
    IF rest = <<>> THEN done
    ELSE SortFrom(InsertByPriority(done, Head(rest)), Tail(rest))

\* a mutant of the sort: the list is left in registration order
SortByPriorityUnsorted(s) == s

SortByPriority(s) == SortFrom(<<>>, s)

\* register_handler(event_name, handler, plugin_name, priority)
register_handler(event_name, plugin_name, priority) ==
    /\ ev_regs < MaxReg
    /\ LET event_handler == [id |-> ev_regs + 1, plugin_name |-> plugin_name,
                             priority |-> priority]
       IN  ev_handlers' = [ev_handlers EXCEPT ![event_name] =
                               SortByPriority(Append(@, event_handler))]
    /\ ev_regs' = ev_regs + 1
    /\ UNCHANGED <<ev_history, ev_count, ev_invoked, ev_results, ev_stats>>
    /\ UNCHANGED nonEvents

HandlerIds(hs) == {hs[i].id : i \in 1..Len(hs)}

\* the handler list of an event after removing handlers; handler_id = 0
\* stands for handler=None (all handlers of the plugin)
HandlersWithout(hs, plugin_name, handler_id) ==
    IF handler_id = 0
    THEN FilterSeq(hs, {h \in Range(hs) : h.plugin_name # plugin_name})
    ELSE FilterSeq(hs, {h \in Range(hs) :
                          ~(h.plugin_name = plugin_name /\ h.id = handler_id)})

\* unregister_handler(event_name, plugin_name, handler=None)
unregister_handler(event_name, plugin_name, handler_id) ==
    /\ ev_handlers[event_name] # <<>>
    /\ ev_handlers' = [ev_handlers EXCEPT ![event_name] =
                           HandlersWithout(@, plugin_name, handler_id)]
    /\ UNCHANGED <<ev_history, ev_count, ev_regs, ev_invoked, ev_results, ev_stats>>
    /\ UNCHANGED nonEvents

\* unregister_plugin_handlers(plugin_name)
unregister_plugin_handlers(plugin_name) ==
    /\ \E e \in EventNames : \E i \in 1..Len(ev_handlers[e]) :
            ev_handlers[e][i].plugin_name = plugin_name
    /\ ev_handlers' = [e \in EventNames |->
                           HandlersWithout(ev_handlers[e], plugin_name, 0)]
    /\ UNCHANGED <<ev_history, ev_count, ev_regs, ev_invoked, ev_results, ev_stats>>
    /\ UNCHANGED nonEvents

\* a mutant of the history cap: the newest event is dropped instead of the oldest
HistoryAppendDropNewest(history, event) ==
    LET h == Append(history, event)
    IN  IF Len(h) > max_history THEN SubSeq(h, 1, Len(h) - 1) ELSE h

\* self._event_history.append(event); if len > max_history: pop(0)
HistoryAppend(history, event) ==
    LET h == Append(history, event)
    IN  IF Len(h) > max_history THEN Tail(h) ELSE h

\* the result list of a dispatch: the handler's result, or None at the
\* position of a handler that raised (raising: the ids of the handlers whose
\* call raises)
ResultsOf(hs, raising) ==
    [i \in 1..Len(hs) |-> IF hs[i].id \in raising THEN "None" ELSE "result"]

\* self._stats before any emission
NoStats == [total_events |-> 0, total_handlers_called |-> 0, events_by_name |-> <<>>]

\* the statistics update at the head of an emission: total_events and
\* events_by_name[event.name] are incremented
CountEvent(stats, event_name) ==
    [stats EXCEPT
        !.total_events = @ + 1,
        !.events_by_name =
            [n \in DOMAIN @ \cup {event_name} |->
                IF n = event_name
                THEN (IF n \in DOMAIN @ THEN @[n] ELSE 0) + 1
                ELSE @[n]]]

\* the statistics after an emission: the event is counted, and every handler
\* call that returned is counted in total_handlers_called
StatsAfter(stats, event_name, hs, raising) ==
    [CountEvent(stats, event_name) EXCEPT
        !.total_handlers_called =
            @ + Cardinality({i \in 1..Len(hs) : hs[i].id \notin raising})]

\* the record-and-dispatch block shared by emit_event_object and
\* emit_event_with_filter: history, then every selected handler in list order
Dispatch(event_name, count_before, history, hs, raising) ==
    [history |-> HistoryAppend(history, [name |-> event_name, id |-> count_before + 1]),
     invoked |-> hs,
     results |-> ResultsOf(hs, raising)]

\* emit_event_object(event)
emit_event_object(event_name, bound) ==
    /\ ev_count < bound
    /\ \E raising \in SUBSET HandlerIds(ev_handlers[event_name]) :
         LET d == Dispatch(event_name, ev_count, ev_history,
                           ev_handlers[event_name], raising)
         IN  /\ ev_history' = d.history
             /\ ev_invoked' = d.invoked
             /\ ev_results' = d.results
             /\ ev_stats' = StatsAfter(ev_stats, event_name,
                                       ev_handlers[event_name], raising)
    /\ ev_count' = ev_count + 1
    /\ UNCHANGED <<ev_handlers, ev_regs>>
    /\ UNCHANGED nonEvents

\* emit_event(event_name, data, source, priority): builds the Event and
\* hands it to emit_event_object
emit_event(event_name, bound) ==
    emit_event_object(event_name, bound)

\* emit_event_with_filter(..., plugin_filter): allowed is the set of plugin
\* names the filter accepts (plugin_filter=None accepts every plugin)
emit_event_with_filter(event_name, allowed, bound) ==
    /\ ev_count < bound
    /\ LET hs == ev_handlers[event_name]
           selected == FilterSeq(hs, {h \in Range(hs) : h.plugin_name \in allowed})
       IN  \E raising \in SUBSET HandlerIds(selected) :
             LET d == Dispatch(event_name, ev_count, ev_history, selected, raising)
             IN  /\ ev_history' = d.history
                 /\ ev_invoked' = d.invoked
                 /\ ev_results' = d.results
                 /\ ev_stats' = StatsAfter(ev_stats, event_name, selected, raising)
    /\ ev_count' = ev_count + 1
    /\ UNCHANGED <<ev_handlers, ev_regs>>
    /\ UNCHANGED nonEvents

\* emit_batch_events(events) for a list of two events: emit_event_object on
\* each in turn
emit_batch_events(name1, name2, bound) ==
    /\ ev_count + 1 < bound
    /\ \E r1 \in SUBSET HandlerIds(ev_handlers[name1]),
          r2 \in SUBSET HandlerIds(ev_handlers[name2]) :
         LET d1 == Dispatch(name1, ev_count, ev_history, ev_handlers[name1], r1)
             d2 == Dispatch(name2, ev_count + 1, d1.history, ev_handlers[name2], r2)
         IN  /\ ev_history' = d2.history
             /\ ev_invoked' = d2.invoked
             /\ ev_results' = d2.results
             /\ ev_stats' = StatsAfter(StatsAfter(ev_stats, name1, ev_handlers[name1], r1),
                                       name2, ev_handlers[name2], r2)
    /\ ev_count' = ev_count + 2
    /\ UNCHANGED <<ev_handlers, ev_regs>>
    /\ UNCHANGED nonEvents

(***************************************************************************)
(* PluginCrashHandler (plugins/crash_handler.py)                           *)
(*                                                                         *)
(* A CrashRecord is represented by its age, now - record.timestamp, in     *)
(* clock ticks, kept up to TicksPerHour (one hour old or older): the       *)
(* handler reads a record only to compare its timestamp with now - 1 hour. *)
(***************************************************************************)
CrashSeverity == {"low", "medium", "high", "critical"}

\* exception classes, one for each branch of _assess_crash_severity
ExceptionTypes == {"MemoryError", "TypeError", "ValueError", "RuntimeError"}

\* a mutation of severity_policies: HIGH crashes are restarted as well
severity_policiesHighRestarts ==
    [low      |-> [auto_restart |-> TRUE,  max_restarts |-> 5, disable_on_failure |-> FALSE],
     medium   |-> [auto_restart |-> TRUE,  max_restarts |-> 3, disable_on_failure |-> TRUE],
     high     |-> [auto_restart |-> TRUE,  max_restarts |-> 1, disable_on_failure |-> TRUE],
     critical |-> [auto_restart |-> FALSE, max_restarts |-> 0, disable_on_failure |-> TRUE]]

\* CrashPolicy.severity_policies (the default factory)
severity_policies ==
    [low      |-> [auto_restart |-> TRUE,  max_restarts |-> 5, disable_on_failure |-> FALSE],
     medium   |-> [auto_restart |-> TRUE,  max_restarts |-> 3, disable_on_failure |-> TRUE],
     high     |-> [auto_restart |-> FALSE, max_restarts |-> 1, disable_on_failure |-> TRUE],
     critical |-> [auto_restart |-> FALSE, max_restarts |-> 0, disable_on_failure |-> TRUE]]

\* CrashPolicy(): the default thresholds
DefaultPolicy ==
    [max_crashes_per_hour |-> 3, auto_disable_threshold |-> 5,
     severity_policies |-> severity_policies]

\* a per-plugin override with wider thresholds
LenientPolicy ==
    [max_crashes_per_hour |-> 4, auto_disable_threshold |-> 7,
     severity_policies |-> severity_policies]

\* a per-plugin override that restarts a plugin after a crash of severity
\* high, with thresholds no explored run reaches
RestartingPolicy ==
    [max_crashes_per_hour |-> 9, auto_disable_threshold |-> 9,
     severity_policies |->
        [severity_policies EXCEPT !.high = [auto_restart |-> TRUE, max_restarts |-> 2,
                                            disable_on_failure |-> TRUE]]]

\* get_plugin_policy(plugin_name)
get_plugin_policy(policies, plugin_name) ==
    CASE policies[plugin_name] = "default" -> DefaultPolicy
      [] policies[plugin_name] = "restarting" -> RestartingPolicy
      [] OTHER -> LenientPolicy

\* a mutation of CallbackRuns: the load of a reload fails once only
CallbackRunsFailingOnce(outcome) == <<outcome, "ok">>

\* what the recovery callback does each time one handle_crash call invokes
\* it, directly or nested: a callback behaves the same way every time
CallbackRuns(outcome) == [i \in 1..MaxCallbackRuns |-> outcome]

\* _assess_crash_severity(exception)
assess_crash_severity(exception) ==
    IF exception \in {"MemoryError", "SystemError"} THEN "critical"
    ELSE IF exception \in {"ImportError", "AttributeError", "TypeError"} THEN "high"
    ELSE IF exception \in {"ValueError", "KeyError", "IndexError"} THEN "medium"
    ELSE "low"

\* the handler's data as one record, for the operators below
CrashData ==
    [records |-> crash_records, counts |-> crash_counts,
     disabled |-> disabled_plugins, restarts |-> restart_attempts]

\* _record_crash(crash_record): the record is stamped with now (age 0)
record_crash(c, plugin_name) ==
    [c EXCEPT !.records[plugin_name] = Append(@, 0),
              !.counts[plugin_name] = @ + 1]

\* a mutant of the window test: records up to two hours old count as recent
get_recent_crashesTwoHours(c, plugin_name) ==
    c.records[plugin_name]

\* _get_recent_crashes(plugin_name, hours=1): record.timestamp > now - 1 hour
get_recent_crashes(c, plugin_name) ==
    FilterSeq(c.records[plugin_name], {a \in 0..TicksPerHour : a < TicksPerHour})

\* a mutant of the lifetime test: the threshold has to be exceeded
should_disable_pluginOffByOne(c, plugin_name, policy) ==
    \/ plugin_name \in c.disabled
    \/ c.counts[plugin_name] > policy.auto_disable_threshold
    \/ Len(get_recent_crashes(c, plugin_name)) >= policy.max_crashes_per_hour

\* _should_disable_plugin(plugin_name, policy)
should_disable_plugin(c, plugin_name, policy) ==
    \/ plugin_name \in c.disabled
    \/ c.counts[plugin_name] >= policy.auto_disable_threshold
    \/ Len(get_recent_crashes(c, plugin_name)) >= policy.max_crashes_per_hour

\* a mutation of disable_plugin: disabling counts as a restart attempt
disable_pluginCountingAttempt(c, plugin_name) ==
    [c EXCEPT !.disabled = @ \cup {plugin_name}, !.restarts[plugin_name] = @ + 1]

\* _disable_plugin(plugin_name)
disable_plugin(c, plugin_name) ==
    [c EXCEPT !.disabled = @ \cup {plugin_name}]

\* what one handle_crash call leaves behind: the data, the value returned and,
\* in invocation order, an entry for this call and for each call nested in it.
\* An entry tells what the call returned and whether the plugin is disabled
\* after it, what _should_disable_plugin read (before: the data once the
\* crash is recorded), the restart counter before and after, whether the
\* recovery callback was invoked, and the record's recovery_attempted flag
CallEntry(before, c, returned, plugin_name, severity, recovered, attempted) ==
    [returned |-> returned, disabled |-> plugin_name \in c.disabled,
     severity |-> severity,
     was_disabled |-> plugin_name \in before.disabled,
     count |-> before.counts[plugin_name],
     recent |-> Len(get_recent_crashes(before, plugin_name)),
     attempts_before |-> before.restarts[plugin_name],
     attempts_after |-> c.restarts[plugin_name],
     callback_invoked |-> recovered,
     recovery_attempted |-> attempted]

\* a mutation of load_failure_severity: a failed load is reported as low
load_failure_severityLow == "low"

\* the severity load_plugin gives handle_crash for a failed load
load_failure_severity == "high"

RECURSIVE handle_crash_call(_, _, _, _, _, _)
\* handle_crash(plugin_name, exception, operation, severity) on the data c.
\* has_callback: the plugin has a recovery callback; outcomes: what the
\* recovery callback does each time it is invoked, outermost call first:
\* "ok" (returns), "raise", or "reload_fails" (the Plugin Manager's callback
\* whose load_plugin fails and reports handle_crash(plugin, e, "plugin_load",
\* HIGH) before it returns).
handle_crash_call(c, policy, has_callback, plugin_name, severity, outcomes) ==
    LET c1 == record_crash(c, plugin_name)
        sp == policy.severity_policies[severity]
        current_attempts == c1.restarts[plugin_name]
    IN  IF should_disable_plugin(c1, plugin_name, policy)
        THEN LET c2 == disable_plugin(c1, plugin_name)
             IN  [c |-> c2, returned |-> FALSE,
                  log |-> <<CallEntry(c1, c2, FALSE, plugin_name, severity, FALSE, FALSE)>>]
        ELSE IF ~sp.auto_restart \/ current_attempts >= sp.max_restarts
        THEN [c |-> c1, returned |-> FALSE,
              log |-> <<CallEntry(c1, c1, FALSE, plugin_name, severity, FALSE, TRUE)>>]
        ELSE LET c2 == [c1 EXCEPT !.restarts[plugin_name] = current_attempts + 1]
             IN  IF ~has_callback
                 THEN [c |-> c2, returned |-> FALSE,
                       log |-> <<CallEntry(c1, c2, FALSE, plugin_name, severity, FALSE, TRUE)>>]
                 ELSE IF outcomes = <<>> \/ Head(outcomes) = "ok"
                 THEN [c |-> c2, returned |-> TRUE,
                       log |-> <<CallEntry(c1, c2, TRUE, plugin_name, severity, TRUE, TRUE)>>]
                 ELSE IF Head(outcomes) = "raise"
                 THEN [c |-> c2, returned |-> FALSE,
                       log |-> <<CallEntry(c1, c2, FALSE, plugin_name, severity, TRUE, TRUE)>>]
                 ELSE LET inner == handle_crash_call(c2, policy, has_callback,
                                       plugin_name, load_failure_severity,
                                       Tail(outcomes))
                      IN  [c |-> inner.c, returned |-> TRUE,
                           log |-> <<CallEntry(c1, inner.c, TRUE, plugin_name, severity, TRUE, TRUE)>>
                                   \o inner.log]

CallbackOutcomes == {"ok", "raise", "reload_fails"}

\* handle_crash(plugin_name, exception, operation, severity): given is the
\* severity argument ("None": not given, assessed from the exception)
handle_crash(plugin_name, exception, given, outcome) ==
    /\ ch_calls["pA"] + ch_calls["pB"] < MaxCrashes
    /\ plugin_name = "pB" => ch_calls["pB"] < MaxOtherCrashes
    /\ LET severity == IF given = "None" THEN assess_crash_severity(exception) ELSE given
           policy == get_plugin_policy(plugin_policies, plugin_name)
       IN  \E r \in {handle_crash_call(CrashData, policy, plugin_name \in recovery_callbacks,
                                       plugin_name, severity, CallbackRuns(outcome))} :
           /\ crash_records' = r.c.records
           /\ crash_counts' = r.c.counts
           /\ disabled_plugins' = r.c.disabled
           /\ restart_attempts' = r.c.restarts
           /\ ch_calls' = [ch_calls EXCEPT ![plugin_name] = @ + Len(r.log)]
           /\ ch_last' = [plugin_name |-> plugin_name, first |-> ch_calls[plugin_name] + 1,
                          default_policy |-> plugin_policies[plugin_name] = "default",
                          policy |-> plugin_policies[plugin_name],
                          log |-> r.log]
    /\ UNCHANGED <<recovery_callbacks, plugin_policies>>
    /\ UNCHANGED nonCrash

\* set_plugin_policy(plugin_name, policy)
set_plugin_policy(plugin_name, policy) ==
    /\ plugin_policies[plugin_name] # policy
    /\ plugin_policies' = [plugin_policies EXCEPT ![plugin_name] = policy]
    /\ UNCHANGED <<crash_records, crash_counts, disabled_plugins, restart_attempts,
                   recovery_callbacks, ch_calls, ch_last>>
    /\ UNCHANGED nonCrash

\* register_recovery_callback(plugin_name, callback)
register_recovery_callback(plugin_name) ==
    /\ plugin_name \notin recovery_callbacks
    /\ recovery_callbacks' = recovery_callbacks \cup {plugin_name}
    /\ UNCHANGED <<crash_records, crash_counts, disabled_plugins, restart_attempts,
                   plugin_policies, ch_calls, ch_last>>
    /\ UNCHANGED nonCrash

\* a mutation of enable_plugin: the crash count and records are cleared too
enable_pluginClearingHistory(plugin_name) ==
    /\ plugin_name \in disabled_plugins
    /\ disabled_plugins' = disabled_plugins \ {plugin_name}
    /\ restart_attempts' = [restart_attempts EXCEPT ![plugin_name] = 0]
    /\ crash_records' = [crash_records EXCEPT ![plugin_name] = <<>>]
    /\ crash_counts' = [crash_counts EXCEPT ![plugin_name] = 0]
    /\ UNCHANGED <<recovery_callbacks, plugin_policies, ch_calls, ch_last>>
    /\ UNCHANGED nonCrash

\* enable_plugin(plugin_name)
enable_plugin(plugin_name) ==
    /\ plugin_name \in disabled_plugins
    /\ disabled_plugins' = disabled_plugins \ {plugin_name}
    /\ restart_attempts' = [restart_attempts EXCEPT ![plugin_name] = 0]
    /\ UNCHANGED <<crash_records, crash_counts, recovery_callbacks, plugin_policies,
                   ch_calls, ch_last>>
    /\ UNCHANGED nonCrash

\* clear_crash_history(plugin_name)
clear_crash_history(plugin_name) ==
    /\ crash_records' = [crash_records EXCEPT ![plugin_name] = <<>>]
    /\ crash_counts' = [crash_counts EXCEPT ![plugin_name] = 0]
    /\ restart_attempts' = [restart_attempts EXCEPT ![plugin_name] = 0]
    /\ UNCHANGED <<disabled_plugins, recovery_callbacks, plugin_policies, ch_calls, ch_last>>
    /\ UNCHANGED nonCrash

\* is_plugin_disabled(plugin_name)
is_plugin_disabled(plugin_name) == plugin_name \in disabled_plugins

\* the clock advances by one tick: every record is one tick older
CrashTick ==
    /\ \E q \in Plugins : \E i \in 1..Len(crash_records[q]) :
            crash_records[q][i] < TicksPerHour
    /\ crash_records' = [q \in Plugins |->
            [i \in 1..Len(crash_records[q]) |-> Min(crash_records[q][i] + 1, TicksPerHour)]]
    /\ UNCHANGED <<crash_counts, disabled_plugins, restart_attempts, recovery_callbacks,
                   plugin_policies, ch_calls, ch_last>>
    /\ UNCHANGED nonCrash

\* PluginCrashHandler.__init__, with no crash logs of earlier runs to load
InitCrash ==
    /\ crash_records = [q \in Plugins |-> <<>>]
    /\ crash_counts = [q \in Plugins |-> 0]
    /\ disabled_plugins = {}
    /\ restart_attempts = [q \in Plugins |-> 0]
    /\ recovery_callbacks = {}
    /\ plugin_policies = [q \in Plugins |-> "default"]
    /\ ch_calls = [q \in Plugins |-> 0]
    /\ ch_last = [plugin_name |-> "none", first |-> 0, default_policy |-> TRUE,
                  policy |-> "default", log |-> <<>>]

(***************************************************************************)
(* PluginPerformanceMonitor (plugins/performance.py)                       *)
(*                                                                         *)
(* A call time in a call history is represented by its age, now - time,    *)
(* in clock ticks, kept up to TicksPerMinute + 1 (older than one minute).  *)
(***************************************************************************)

\* the per-plugin overrides explored by set_plugin_limits
LimitOverrides ==
    {[enabled |-> TRUE, max_calls_per_minute |-> 2],
     [enabled |-> TRUE, max_calls_per_minute |-> 1001],
     [enabled |-> FALSE, max_calls_per_minute |-> 1]}

\* ResourceLimits(): the default limits
DefaultLimits == [enabled |-> TRUE, max_calls_per_minute |-> max_calls_per_minute]

\* get_plugin_limits(plugin_name)
get_plugin_limits(plugin_name) ==
    IF resource_limits[plugin_name] = {} THEN DefaultLimits
    ELSE CHOOSE l \in resource_limits[plugin_name] : TRUE

RECURSIVE DropExpired(_)
\* while call_history and call_history[0] < cutoff_time: call_history.popleft()
DropExpired(h) ==
    IF h # <<>> /\ Head(h) > TicksPerMinute THEN DropExpired(Tail(h)) ELSE h

\* deque(maxlen=1000).append(now): a full deque drops its leftmost element
DequeAppend(h, x) ==
    IF Len(h) >= call_history_maxlen THEN Append(Tail(h), x) ELSE Append(h, x)

\* _check_call_rate_limit(plugin_name): the value returned and the call history left
check_call_rate_limit(plugin_name) ==
    LET limits == get_plugin_limits(plugin_name)
        cleaned == DropExpired(call_history[plugin_name])
    IN  IF ~limits.enabled
        THEN [ok |-> TRUE, history |-> call_history[plugin_name]]
        ELSE IF Len(cleaned) >= limits.max_calls_per_minute
        THEN [ok |-> FALSE, history |-> cleaned]
        ELSE [ok |-> TRUE, history |-> DequeAppend(cleaned, 0)]

\* the calls in a history that a call made now still counts
LiveCalls(h) == Cardinality({i \in 1..Len(h) : h[i] <= TicksPerMinute})

\* start_monitoring(plugin_name, operation)
start_monitoring(plugin_name) ==
    /\ pm_run[plugin_name].n < MaxCalls
    /\ \E r \in {check_call_rate_limit(plugin_name)} :
          /\ call_history' = [call_history EXCEPT ![plugin_name] = r.history]
          /\ pm_last' = [pm_last EXCEPT ![plugin_name] =
                            IF r.ok THEN "context" ELSE "RuntimeError"]
    /\ pm_run' = [pm_run EXCEPT ![plugin_name].n =
                     IF pm_run[plugin_name].clean THEN @ + 1 ELSE @]
    /\ UNCHANGED resource_limits
    /\ UNCHANGED nonPerf

\* set_plugin_limits(plugin_name, limits)
set_plugin_limits(plugin_name, limits) ==
    /\ resource_limits[plugin_name] # {limits}
    /\ resource_limits' = [resource_limits EXCEPT ![plugin_name] = {limits}]
    /\ pm_run' = [pm_run EXCEPT ![plugin_name] =
                     [n |-> 0, clean |-> LiveCalls(call_history[plugin_name]) = 0]]
    /\ pm_last' = [pm_last EXCEPT ![plugin_name] = "none"]
    /\ UNCHANGED call_history
    /\ UNCHANGED nonPerf

\* the clock advances by one tick: every recorded call is one tick older
PerfTick ==
    /\ \A q \in Plugins : Len(call_history[q]) <= MaxAgedCalls
    /\ \E q \in Plugins : \E i \in 1..Len(call_history[q]) :
            call_history[q][i] <= TicksPerMinute
    /\ call_history' = [q \in Plugins |->
            [i \in 1..Len(call_history[q]) |->
                Min(call_history[q][i] + 1, TicksPerMinute + 1)]]
    /\ pm_run' = [q \in Plugins |->
                     [n |-> 0, clean |-> LiveCalls(call_history'[q]) = 0]]
    /\ pm_last' = [q \in Plugins |-> "none"]
    /\ UNCHANGED resource_limits
    /\ UNCHANGED nonPerf

\* PluginPerformanceMonitor.__init__
InitPerf ==
    /\ resource_limits = [q \in Plugins |-> {}]
    /\ call_history = [q \in Plugins |-> <<>>]
    /\ pm_last = [q \in Plugins |-> "none"]
    /\ pm_run = [q \in Plugins |-> [n |-> 0, clean |-> TRUE]]

(***************************************************************************)
(* PluginRegistry (plugins/registry.py)                                    *)
(***************************************************************************)

\* the plugin names of the registry
RegistryNames == {"A", "B", "C"}

\* the lists of names given to resolve_load_order (a name may repeat)
NameLists == UNION {[1..k -> RegistryNames] : k \in 0..MaxNames}

\* the orders in which a set of dependencies may be iterated
IterationOrders == {o \in [1..Cardinality(RegistryNames) -> RegistryNames] :
                        Range(o) = RegistryNames}

\* dict without a key
DictWithout(d, key) == [k \in DOMAIN d \ {key} |-> d[k]]

\* dict with d[key] = value
DictWith(d, key, value) ==
    [k \in DOMAIN d \cup {key} |-> IF k = key THEN value ELSE d[k]]

\* register_plugin(metadata)
register_plugin(name, dependencies) ==
    /\ reg_plugins' = DictWith(reg_plugins, name,
                               [name |-> name, dependencies |-> dependencies])
    /\ reg_dependencies' = DictWith(reg_dependencies, name, dependencies)
    /\ <<reg_plugins', reg_dependencies'>> # <<reg_plugins, reg_dependencies>>
    /\ rl_last' = [calls |-> 0, names |-> <<>>, raised |-> FALSE, result |-> <<>>]
    /\ UNCHANGED nonRegistry

\* unregister_plugin(plugin_name)
unregister_plugin(plugin_name) ==
    /\ plugin_name \in DOMAIN reg_plugins \cup DOMAIN reg_dependencies
    /\ reg_plugins' = DictWithout(reg_plugins, plugin_name)
    /\ reg_dependencies' = DictWithout(reg_dependencies, plugin_name)
    /\ rl_last' = [calls |-> 0, names |-> <<>>, raised |-> FALSE, result |-> <<>>]
    /\ UNCHANGED nonRegistry

\* get_dependencies(plugin_name)
get_dependencies(dependencies, plugin_name) ==
    IF plugin_name \in DOMAIN dependencies THEN dependencies[plugin_name] ELSE {}

\* a mutation of DepsToVisit: no dependency is visited
DepsToVisitNone(dependencies, name, plugin_names, order) == <<>>

\* a mutation of DepsToVisit: every dependency is visited
DepsToVisitUnrestricted(dependencies, name, plugin_names, order) ==
    FilterSeq(order, get_dependencies(dependencies, name))

\* for dep in self.get_dependencies(name): if dep in plugin_names
DepsToVisit(dependencies, name, plugin_names, order) ==
    FilterSeq(order, get_dependencies(dependencies, name) \cap Range(plugin_names))

RECURSIVE visit(_, _, _, _, _)
RECURSIVE visit_each(_, _, _, _, _)
\* visit(name), on st = [visited, temp_visited, result, raised]
visit(st, name, dependencies, plugin_names, order) ==
    IF st.raised THEN st
    ELSE IF name \in st.temp_visited THEN [st EXCEPT !.raised = TRUE]
    ELSE IF name \in st.visited THEN st
    ELSE LET entered == [st EXCEPT !.temp_visited = @ \cup {name}]
             after == visit_each(entered,
                                 DepsToVisit(dependencies, name, plugin_names, order),
                                 dependencies, plugin_names, order)
         IN  IF after.raised THEN after
             ELSE [after EXCEPT !.temp_visited = @ \ {name},
                                !.visited = @ \cup {name},
                                !.result = Append(@, name)]

\* the loop of visit over the dependencies, and of resolve_load_order over the names
visit_each(st, todo, dependencies, plugin_names, order) ==
    IF todo = <<>> \/ st.raised THEN st
    ELSE visit_each(visit(st, Head(todo), dependencies, plugin_names, order),
                    Tail(todo), dependencies, plugin_names, order)

\* resolve_load_order(plugin_names): whether it raises, and the list returned
resolve_load_order_call(dependencies, plugin_names, order) ==
    visit_each([visited |-> {}, temp_visited |-> {}, result |-> <<>>, raised |-> FALSE],
               plugin_names, dependencies, plugin_names, order)

\* resolve_load_order(plugin_names)
resolve_load_order(plugin_names, order) ==
    /\ rl_last.calls < MaxResolves
    /\ \E r \in {resolve_load_order_call(reg_dependencies, plugin_names, order)} :
          rl_last' = [calls |-> rl_last.calls + 1, names |-> plugin_names,
                      raised |-> r.raised,
                      result |-> IF r.raised THEN <<>> ELSE r.result]
    /\ UNCHANGED <<reg_plugins, reg_dependencies>>
    /\ UNCHANGED nonRegistry

\* PluginRegistry.__init__
InitRegistry ==
    /\ reg_plugins = <<>>
    /\ reg_dependencies = <<>>
    /\ rl_last = [calls |-> 0, names |-> <<>>, raised |-> FALSE, result |-> <<>>]

(***************************************************************************)
(* BaseController (ui/controllers/base_controller.py)                      *)
(*                                                                         *)
(* A listener is a callable that returns or raises an Exception; which of  *)
(* the listeners raise is chosen at each emission, by position in the      *)
(* list.  Exceptions of error handlers and of the view's show_error are    *)
(* caught inside _handle_error and change nothing.                         *)
(***************************************************************************)

\* ControllerState
ControllerState == {"idle", "processing", "error", "completed"}

\* the event types of the controller
ControllerEvents == {"state_changed", "config_changed"}

\* the callables registered as listeners
Listeners == {"h1", "h2"}

\* the views: None, an object with show_error, an object without it
Views == {"None", "view", "view_without_show_error"}

\* self._event_handlers.get(event_type, [])
ListenersOf(handlers, event_type) ==
    IF event_type \in DOMAIN handlers THEN handlers[event_type] ELSE <<>>

RECURSIVE SumLen(_, _)
\* the number of listeners in the dict
SumLen(handlers, types) ==
    IF types = {} THEN 0
    ELSE LET t == CHOOSE x \in types : TRUE
         IN  Len(handlers[t]) + SumLen(handlers, types \ {t})

\* the cleared record of the latest emission
NoEmission ==
    [op |-> "none", event_type |-> "none", invoked |-> <<>>, raised |-> 0,
     errors |-> 0, handled |-> 0, shown |-> 0]

\* add_event_listener(event_type, handler)
add_event_listener(event_type, handler) ==
    /\ SumLen(ctl_event_handlers, DOMAIN ctl_event_handlers) < MaxListeners
    /\ ctl_event_handlers' =
          DictWith(ctl_event_handlers, event_type,
                   Append(ListenersOf(ctl_event_handlers, event_type), handler))
    /\ ctl_last' = NoEmission
    /\ UNCHANGED <<ctl_state, ctl_error_handlers, ctl_view>>
    /\ UNCHANGED nonController

RECURSIVE RemoveFirst(_, _)
\* list.remove(x): the list without the first occurrence of x
RemoveFirst(list, x) ==
    IF list = <<>> THEN <<>>
    ELSE IF Head(list) = x THEN Tail(list)
    ELSE <<Head(list)>> \o RemoveFirst(Tail(list), x)

\* remove_event_listener(event_type, handler)
remove_event_listener(event_type, handler) ==
    /\ event_type \in DOMAIN ctl_event_handlers
    /\ handler \in Range(ctl_event_handlers[event_type])
    /\ LET left == RemoveFirst(ctl_event_handlers[event_type], handler)
       IN  ctl_event_handlers' =
              IF left = <<>> THEN DictWithout(ctl_event_handlers, event_type)
              ELSE DictWith(ctl_event_handlers, event_type, left)
    /\ ctl_last' = NoEmission
    /\ UNCHANGED <<ctl_state, ctl_error_handlers, ctl_view>>
    /\ UNCHANGED nonController

\* add_error_handler(handler)
add_error_handler ==
    /\ ctl_error_handlers < MaxErrorHandlers
    /\ ctl_error_handlers' = ctl_error_handlers + 1
    /\ UNCHANGED <<ctl_state, ctl_event_handlers, ctl_view, ctl_last>>
    /\ UNCHANGED nonController

\* set_view(view)
set_view(view) ==
    /\ ctl_view # view
    /\ ctl_view' = view
    /\ UNCHANGED <<ctl_state, ctl_event_handlers, ctl_error_handlers, ctl_last>>
    /\ UNCHANGED nonController

\* a mutation of handle_error_call: the state is left as it is
handle_error_callKeepState(st, error_handlers, view) ==
    [st EXCEPT !.errors = @ + 1,
               !.handled = @ + error_handlers,
               !.shown = IF view = "view" THEN @ + 1 ELSE @]

\* _handle_error(error, context), on st = [state, invoked, raised, errors, handled, shown]
handle_error_call(st, error_handlers, view) ==
    [st EXCEPT !.state = "error",
               !.errors = @ + 1,
               !.handled = @ + error_handlers,
               !.shown = IF view = "view" THEN @ + 1 ELSE @]

RECURSIVE emit_event_loopAbortOnRaise(_, _, _, _, _, _)
\* a mutation of emit_event_loop: the first raising listener ends the emission
emit_event_loopAbortOnRaise(st, handlers, i, raising, error_handlers, view) ==
    IF i > Len(handlers) THEN st
    ELSE LET called == [st EXCEPT !.invoked = Append(@, handlers[i])]
         IN  IF i \in raising
             THEN handle_error_call([called EXCEPT !.raised = @ + 1],
                                    error_handlers, view)
             ELSE emit_event_loopAbortOnRaise(called, handlers, i + 1, raising,
                                              error_handlers, view)

RECURSIVE emit_event_loop(_, _, _, _, _, _)
\* for handler in handlers: try handler(event) except Exception: _handle_error
emit_event_loop(st, handlers, i, raising, error_handlers, view) ==
    IF i > Len(handlers) THEN st
    ELSE LET called == [st EXCEPT !.invoked = Append(@, handlers[i])]
             after == IF i \in raising
                      THEN handle_error_call([called EXCEPT !.raised = @ + 1],
                                             error_handlers, view)
                      ELSE called
         IN  emit_event_loop(after, handlers, i + 1, raising, error_handlers, view)

\* BaseController.emit_event(event) from the given controller state
controller_emit_event_call(state, event_type, raising) ==
    emit_event_loop([state |-> state, invoked |-> <<>>, raised |-> 0,
                     errors |-> 0, handled |-> 0, shown |-> 0],
                    ListenersOf(ctl_event_handlers, event_type), 1, raising,
                    ctl_error_handlers, ctl_view)

\* the record kept of an emission
EmissionRecord(op, event_type, r) ==
    [op |-> op, event_type |-> event_type, invoked |-> r.invoked,
     raised |-> r.raised, errors |-> r.errors, handled |-> r.handled,
     shown |-> r.shown]

\* BaseController.emit_event(event)
controller_emit_event(event_type, raising) ==
    /\ raising \subseteq 1..Len(ListenersOf(ctl_event_handlers, event_type))
    /\ \E r \in {controller_emit_event_call(ctl_state, event_type, raising)} :
          /\ ctl_state' = r.state
          /\ ctl_last' = EmissionRecord("emit_event", event_type, r)
    /\ UNCHANGED <<ctl_event_handlers, ctl_error_handlers, ctl_view>>
    /\ UNCHANGED nonController

\* set_state(state, data)
set_state(state, raising) ==
    /\ raising \subseteq 1..Len(ListenersOf(ctl_event_handlers, "state_changed"))
    /\ \E r \in {controller_emit_event_call(state, "state_changed", raising)} :
          /\ ctl_state' = r.state
          /\ ctl_last' = EmissionRecord("set_state", "state_changed", r)
    /\ UNCHANGED <<ctl_event_handlers, ctl_error_handlers, ctl_view>>
    /\ UNCHANGED nonController

\* _handle_error(error, context), called by the controller's own operations
handle_error ==
    /\ ctl_state # "error"
    /\ ctl_state' = "error"
    /\ ctl_last' = NoEmission
    /\ UNCHANGED <<ctl_event_handlers, ctl_error_handlers, ctl_view>>
    /\ UNCHANGED nonController

\* BaseController.__init__
InitController ==
    /\ ctl_state = "idle"
    /\ ctl_event_handlers = <<>>
    /\ ctl_error_handlers = 0
    /\ ctl_view = "None"
    /\ ctl_last = NoEmission

(***************************************************************************)
(* VersionInfo, VersionCompatibilityManager (plugins/version_manager.py)   *)
(*                                                                         *)
(* A version string is a release of one to three numeric segments, or a    *)
(* text that packaging.version.parse rejects.                              *)
(***************************************************************************)

\* CompatibilityLevel
CompatibilityLevel == {"compatible", "backward", "deprecated", "incompatible"}

\* the version strings: "1", "1.0", "1.0.1", ..., and an unparsable one
VersionStrings ==
    {[valid |-> TRUE, release |-> r] :
        r \in UNION {[1..k -> 0..MaxSegment] : k \in 1..3}}
    \cup {[valid |-> FALSE, release |-> <<>>]}

\* the VersionInfo objects
VersionInfos == [major : 0..MaxSegment, minor : 0..MaxSegment, patch : 0..MaxSegment]

\* VersionInfo.from_string(version_str): ok is FALSE where it raises ValueError
from_string(version_str) ==
    IF ~version_str.valid
    THEN [ok |-> FALSE, info |-> [major |-> 0, minor |-> 0, patch |-> 0]]
    ELSE LET r == version_str.release
         IN  [ok |-> TRUE,
              info |-> [major |-> r[1],
                        minor |-> IF Len(r) >= 2 THEN r[2] ELSE 0,
                        patch |-> IF Len(r) >= 3 THEN r[3] ELSE 0]]

\* VersionInfo.__lt__
VersionLt(a, b) ==
    \/ a.major < b.major
    \/ a.major = b.major /\ a.minor < b.minor
    \/ a.major = b.major /\ a.minor = b.minor /\ a.patch < b.patch

\* VersionInfo.__eq__
VersionEq(a, b) == a.major = b.major /\ a.minor = b.minor /\ a.patch = b.patch

\* VersionInfo.__gt__: not (self == other or self < other)
VersionGt(a, b) == ~(VersionEq(a, b) \/ VersionLt(a, b))

\* the compatibility rules explored: max_version is <<>> (None) or <<version>>
RuleChoices ==
    {[min_version |-> [major |-> 0, minor |-> 0, patch |-> 0],
      max_version |-> <<>>, compatibility_level |-> "deprecated"],
     [min_version |-> [major |-> 0, minor |-> 1, patch |-> 0],
      max_version |-> <<[major |-> 1, minor |-> 0, patch |-> 1]>>,
      compatibility_level |-> "compatible"]}

\* _version_matches_rule(plugin_version, rule)
version_matches_rule(plugin_version, rule) ==
    IF VersionLt(plugin_version, rule.min_version) THEN FALSE
    ELSE IF rule.max_version # <<>> /\ VersionGt(plugin_version, rule.max_version[1])
    THEN FALSE
    ELSE TRUE

\* a mutation of default_compatibility_check: a newer patch is incompatible
default_compatibility_checkWithPatch(app_ver, plugin_version) ==
    IF plugin_version.major # app_ver.major
    THEN IF plugin_version.major < app_ver.major THEN "deprecated" ELSE "incompatible"
    ELSE IF plugin_version.minor < app_ver.minor THEN "backward"
    ELSE IF plugin_version.minor > app_ver.minor THEN "incompatible"
    ELSE IF plugin_version.patch > app_ver.patch THEN "incompatible"
    ELSE "compatible"

\* _default_compatibility_check(plugin_version)
default_compatibility_check(app_ver, plugin_version) ==
    IF plugin_version.major # app_ver.major
    THEN IF plugin_version.major < app_ver.major THEN "deprecated" ELSE "incompatible"
    ELSE IF plugin_version.minor < app_ver.minor THEN "backward"
    ELSE IF plugin_version.minor > app_ver.minor THEN "incompatible"
    ELSE "compatible"

RECURSIVE FirstMatchingRule(_, _)
\* for rule in rules: if _version_matches_rule(plugin_ver, rule): return its level
FirstMatchingRule(rules, plugin_ver) ==
    IF rules = <<>> THEN "none"
    ELSE IF version_matches_rule(plugin_ver, Head(rules))
    THEN Head(rules).compatibility_level
    ELSE FirstMatchingRule(Tail(rules), plugin_ver)

\* check_compatibility(plugin_name, plugin_version, required_app_version): the
\* level returned; required is <<>> (None or "") or <<version string>>
check_compatibility_call(app_ver, rules, plugin_name, plugin_version, required) ==
    LET plugin_ver == from_string(plugin_version)
        required_ver == IF required # <<>> THEN from_string(required[1])
                        ELSE [ok |-> TRUE, info |-> app_ver]
        by_rule == IF plugin_name \in DOMAIN rules
                   THEN FirstMatchingRule(rules[plugin_name], plugin_ver.info)
                   ELSE "none"
    IN  IF ~plugin_ver.ok \/ ~required_ver.ok THEN "incompatible"
        ELSE IF required # <<>> /\ VersionLt(app_ver, required_ver.info)
        THEN "incompatible"
        ELSE IF by_rule # "none" THEN by_rule
        ELSE default_compatibility_check(app_ver, plugin_ver.info)

\* check_compatibility(plugin_name, plugin_version, required_app_version)
check_compatibility(plugin_name, plugin_version, required) ==
    /\ vm_last' = [called |-> TRUE, plugin_name |-> plugin_name,
                   plugin_version |-> plugin_version, required |-> required,
                   level |-> check_compatibility_call(app_version, compatibility_rules,
                                 plugin_name, plugin_version, required)]
    /\ vm_last' # vm_last
    /\ vm_constructed
    /\ UNCHANGED <<vm_constructed, app_version, compatibility_rules>>
    /\ UNCHANGED nonVersion

\* register_compatibility_rule(plugin_name, rule)
register_compatibility_rule(plugin_name, rule) ==
    /\ vm_constructed
    /\ SumLen(compatibility_rules, DOMAIN compatibility_rules) < MaxRules
    /\ compatibility_rules' =
          DictWith(compatibility_rules, plugin_name,
                   Append(ListenersOf(compatibility_rules, plugin_name), rule))
    /\ UNCHANGED <<vm_constructed, app_version, vm_last>>
    /\ UNCHANGED nonVersion

\* VersionCompatibilityManager.__init__(app_version): no manager is made when
\* from_string raises
version_manager_init(version_str) ==
    /\ ~vm_constructed
    /\ from_string(version_str).ok
    /\ vm_constructed' = TRUE
    /\ app_version' = from_string(version_str).info
    /\ compatibility_rules' = <<>>
    /\ UNCHANGED vm_last
    /\ UNCHANGED nonVersion

\* before a VersionCompatibilityManager is constructed
InitVersion ==
    /\ vm_constructed = FALSE
    /\ app_version = [major |-> 0, minor |-> 0, patch |-> 0]
    /\ compatibility_rules = <<>>
    /\ vm_last = [called |-> FALSE, plugin_name |-> "none",
                  plugin_version |-> [valid |-> FALSE, release |-> <<>>],
                  required |-> <<>>, level |-> "none"]

(***************************************************************************)
(* LLMConfig, ConfigurationManager (ui/config_models.py)                   *)
(*                                                                         *)
(* Only the LLM configurations of the document are modelled.  A            *)
(* temperature is kept in tenths.  load_config and save_config belong to   *)
(* the configuration I/O module, which is not part of the sources: they    *)
(* are modelled from their contract, a document store that returns what    *)
(* was saved.                                                              *)
(***************************************************************************)

\* the fields of LLMConfig
LLMConfigFields ==
    {"api_key", "base_url", "model_name", "temperature", "max_tokens", "timeout",
     "interface_format", "updated_at", "id", "created_at"}

\* LLMConfig(): the defaults of the dataclass
DefaultLLMConfig ==
    [api_key |-> "", base_url |-> "https://api.openai.com/v1",
     model_name |-> "gpt-4o-mini", temperature |-> 7, max_tokens |-> 8192,
     timeout |-> 600, interface_format |-> "OpenAI",
     updated_at |-> "None", id |-> "None", created_at |-> "None"]

\* the LLMConfig objects given to update_llm_config
LLMConfigChoices ==
    {DefaultLLMConfig,
     [DefaultLLMConfig EXCEPT !.api_key = "sk-1", !.temperature = 10],
     [DefaultLLMConfig EXCEPT !.id = "id-1", !.created_at = "2024-01-01",
                              !.updated_at = "2024-02-02"]}

\* the names of LLM configurations
ConfigNames == {"DeepSeek", "Custom"}

\* LLMConfig(**config): the fields absent from config take their defaults
LLMConfigFrom(config) ==
    [f \in LLMConfigFields |->
        IF f \in DOMAIN config THEN config[f] ELSE DefaultLLMConfig[f]]

\* _get_current_config(): the "llm_configs" part of the document
get_current_config(configs) ==
    [llm_configs |->
        [name \in DOMAIN configs |->
            [api_key |-> configs[name].api_key,
             base_url |-> configs[name].base_url,
             model_name |-> configs[name].model_name,
             temperature |-> configs[name].temperature,
             max_tokens |-> configs[name].max_tokens,
             timeout |-> configs[name].timeout,
             interface_format |-> configs[name].interface_format]]]

\* load_config(path): the document saved last, or absent
load_config(file) == file

\* save_config(path, document): the file after a successful save
save_config(file, document) == [exists |-> TRUE, document |-> document]

\* _initialize_default_config() on the given _llm_configs
initialize_default_config(configs) == DictWith(configs, "DeepSeek", DefaultLLMConfig)

\* load_configuration() of a manager just constructed: its _llm_configs
load_configuration_call(file) ==
    LET loaded_config == load_config(file)
    IN  IF ~loaded_config.exists THEN initialize_default_config(<<>>)
        ELSE [name \in DOMAIN loaded_config.document.llm_configs |->
                 LLMConfigFrom(loaded_config.document.llm_configs[name])]

\* update_llm_config(config_name, config)
update_llm_config(config_name, config) ==
    /\ cm_last.stage # "unconstructed"
    /\ llm_configs' = DictWith(llm_configs, config_name, config)
    /\ cm_last' = [name |-> config_name, config |-> config, stage |-> "updated"]
    /\ cm_last' # cm_last
    /\ UNCHANGED <<config_file, fresh_configs>>
    /\ UNCHANGED nonConfig

\* save_configuration(): success is what save_config returns
save_configuration(success) ==
    /\ cm_last.stage # "unconstructed"
    /\ config_file' = IF success
                      THEN save_config(config_file, get_current_config(llm_configs))
                      ELSE config_file
    /\ cm_last' = IF success /\ cm_last.stage = "updated"
                  THEN [cm_last EXCEPT !.stage = "saved"]
                  ELSE cm_last
    /\ <<config_file', cm_last'>> # <<config_file, cm_last>>
    /\ UNCHANGED <<llm_configs, fresh_configs>>
    /\ UNCHANGED nonConfig

\* ConfigurationManager(config_file): a fresh manager on the same document
fresh_manager ==
    /\ cm_last.stage # "unconstructed"
    /\ fresh_configs' = [loaded |-> TRUE, llm_configs |-> load_configuration_call(config_file)]
    /\ cm_last' = IF cm_last.stage = "saved"
                  THEN [cm_last EXCEPT !.stage = "loaded"]
                  ELSE cm_last
    /\ <<fresh_configs', cm_last'>> # <<fresh_configs, cm_last>>
    /\ UNCHANGED <<llm_configs, config_file>>
    /\ UNCHANGED nonConfig

\* a document written outside the manager, with the fields kept for compatibility
LegacyDocument ==
    [llm_configs |->
        [name \in {"DeepSeek"} |->
            [api_key |-> "sk-0", base_url |-> "https://api.deepseek.com/v1",
             model_name |-> "deepseek-chat", temperature |-> 7, max_tokens |-> 8192,
             timeout |-> 600, interface_format |-> "OpenAI",
             id |-> "id-0", created_at |-> "2023-12-31"]]]

\* ConfigurationManager.__init__(config_file), on no document or on a document
\* already there
configuration_manager_init(file) ==
    /\ cm_last.stage = "unconstructed"
    /\ config_file' = file
    /\ llm_configs' = load_configuration_call(file)
    /\ cm_last' = [cm_last EXCEPT !.stage = "none"]
    /\ UNCHANGED fresh_configs
    /\ UNCHANGED nonConfig

\* before a ConfigurationManager is constructed
InitConfig ==
    /\ config_file = [exists |-> FALSE, document |-> [llm_configs |-> <<>>]]
    /\ llm_configs = <<>>
    /\ fresh_configs = [loaded |-> FALSE, llm_configs |-> <<>>]
    /\ cm_last = [name |-> "none", config |-> DefaultLLMConfig, stage |-> "unconstructed"]

(***************************************************************************)
(* ConfigController._validate_llm_config (ui/controllers/config_controller.py) *)
(*                                                                         *)
(* A value of the config dict is [kind, n]: "absent" (no such key),        *)
(* "None", "empty" (""), "text" (a non-empty string that is no number),    *)
(* "int" (the int n), "float" (the float n/10), "str_int" (the string of   *)
(* the int n), "str_float" (the string of the decimal n/10), "inf" and     *)
(* "nan" (the floats).  Numbers are compared in tenths.                    *)
(***************************************************************************)

\* a value of the given kind
Val(kind, n) == [kind |-> kind, n |-> n]

\* the values tried for the text fields
TextValues == {Val("absent", 0), Val("None", 0), Val("empty", 0), Val("text", 0)}

\* the values tried for temperature
TemperatureValues ==
    {Val("absent", 0), Val("None", 0), Val("text", 0), Val("int", 0), Val("int", 2),
     Val("int", 3), Val("float", -1), Val("float", 7), Val("float", 21),
     Val("str_float", 7), Val("str_float", 25), Val("nan", 0), Val("inf", 0)}

\* the values tried for max_tokens
MaxTokensValues ==
    {Val("absent", 0), Val("None", 0), Val("text", 0), Val("int", 0), Val("int", 1),
     Val("int", -1), Val("float", 5), Val("float", 15), Val("str_int", 1),
     Val("str_float", 15), Val("inf", 0), Val("nan", 0)}

\* the values tried for timeout
TimeoutValues ==
    {Val("absent", 0), Val("None", 0), Val("int", 0), Val("int", 1),
     Val("str_int", 0), Val("str_float", 15), Val("inf", 0)}

\* the config dicts given to _validate_llm_config
LLMConfigInputs ==
    [api_key : TextValues, base_url : TextValues,
     model_name : TextValues \ {Val("None", 0)},
     interface_format : TextValues \ {Val("None", 0)},
     temperature : TemperatureValues, max_tokens : MaxTokensValues,
     timeout : TimeoutValues]

\* field in config
Present(config, field) == config[field].kind # "absent"

\* bool(value)
Truthy(v) ==
    CASE v.kind \in {"None", "empty"} -> FALSE
      [] v.kind \in {"int", "float"} -> v.n # 0
      [] OTHER -> TRUE

\* float(value): the number in tenths, or the exception raised
float(v) ==
    CASE v.kind = "None" -> [exc |-> "TypeError", kind |-> "none", n |-> 0]
      [] v.kind \in {"empty", "text"} -> [exc |-> "ValueError", kind |-> "none", n |-> 0]
      [] v.kind \in {"int", "str_int"} -> [exc |-> "none", kind |-> "finite", n |-> 10 * v.n]
      [] v.kind \in {"float", "str_float"} -> [exc |-> "none", kind |-> "finite", n |-> v.n]
      [] v.kind = "inf" -> [exc |-> "none", kind |-> "inf", n |-> 0]
      [] v.kind = "nan" -> [exc |-> "none", kind |-> "nan", n |-> 0]

\* int(value): the integer (a float is truncated towards zero), or the exception
int(v) ==
    CASE v.kind = "None" -> [exc |-> "TypeError", n |-> 0]
      [] v.kind \in {"empty", "text", "str_float", "nan"} -> [exc |-> "ValueError", n |-> 0]
      [] v.kind \in {"int", "str_int"} -> [exc |-> "none", n |-> v.n]
      [] v.kind = "float" ->
            [exc |-> "none", n |-> IF v.n >= 0 THEN v.n \div 10 ELSE -((-v.n) \div 10)]
      [] v.kind = "inf" -> [exc |-> "OverflowError", n |-> 0]

\* a mutation of RequiredFieldOk: an empty api_key is rejected as well
RequiredFieldOkStrict(config, field) ==
    Present(config, field) /\ Truthy(config[field])

\* the loop body over required_fields: the field is there, and not empty
\* unless it is api_key
RequiredFieldOk(config, field) ==
    /\ Present(config, field)
    /\ ~(field # "api_key" /\ ~Truthy(config[field]))

\* the temperature block: "ok", or "False" returned
TemperatureCheck(config) ==
    IF ~Present(config, "temperature") THEN "ok"
    ELSE LET temp == float(config.temperature)
         IN  IF temp.exc \in {"ValueError", "TypeError"} THEN "False"
             ELSE IF temp.kind = "finite" /\ 0 <= temp.n /\ temp.n <= 20 THEN "ok"
             ELSE "False"

\* the max_tokens and timeout blocks: "ok", "False" returned, or the
\* exception that the except clause does not catch
PositiveIntCheck(config, field) ==
    IF ~Present(config, field) THEN "ok"
    ELSE LET tokens == int(config[field])
         IN  IF tokens.exc \in {"ValueError", "TypeError"} THEN "False"
             ELSE IF tokens.exc # "none" THEN tokens.exc
             ELSE IF tokens.n <= 0 THEN "False"
             ELSE "ok"

\* _validate_llm_config(config) for a dict: "True", "False" or the exception raised
validate_llm_config_call(config) ==
    IF ~RequiredFieldOk(config, "api_key") THEN "False"
    ELSE IF ~RequiredFieldOk(config, "base_url") THEN "False"
    ELSE IF ~RequiredFieldOk(config, "model_name") THEN "False"
    ELSE IF ~RequiredFieldOk(config, "interface_format") THEN "False"
    ELSE IF TemperatureCheck(config) # "ok" THEN TemperatureCheck(config)
    ELSE IF PositiveIntCheck(config, "max_tokens") # "ok"
    THEN PositiveIntCheck(config, "max_tokens")
    ELSE IF PositiveIntCheck(config, "timeout") # "ok"
    THEN PositiveIntCheck(config, "timeout")
    ELSE "True"

\* _validate_llm_config(config)
validate_llm_config ==
    /\ vc_result = "none"
    /\ vc_result' = validate_llm_config_call(vc_config)
    /\ UNCHANGED vc_config
    /\ UNCHANGED nonValidate

\* before _validate_llm_config is called, with the config of the test suite
InitValidate ==
    /\ vc_config = [api_key |-> Val("text", 0), base_url |-> Val("text", 0),
                    model_name |-> Val("text", 0), interface_format |-> Val("text", 0),
                    temperature |-> Val("absent", 0), max_tokens |-> Val("absent", 0),
                    timeout |-> Val("absent", 0)]
    /\ vc_result = "none"

(***************************************************************************)
(* GenerationController (ui/controllers/generation_controller.py)          *)
(*                                                                         *)
(* A run is split where the coroutine awaits the background worker: the    *)
(* part up to the dispatch, the worker's call of the generation function,  *)
(* and the handling of the result.  One run is in flight at a time.  The   *)
(* methods of the view return normally.                                    *)
(***************************************************************************)

\* the generation phases (task types)
Phases == {"architecture", "blueprint", "draft", "finalization"}

\* self._current_task of each phase
TaskMarker ==
    [architecture |-> "architecture_generation", blueprint |-> "blueprint_generation",
     draft |-> "draft_generation", finalization |-> "chapter_finalization"]

\* the fields read from params by the validations
ParamFields == {"topic", "genre", "num_chapters", "word_number", "filepath", "chapter_num"}

\* a params dict: each field is "absent", "empty" (a falsy value) or "set"
FullParams == [f \in ParamFields |-> "set"]

\* the params dicts given to the generate methods
ParamChoices ==
    {FullParams}
    \cup {[FullParams EXCEPT ![f] = "absent"] : f \in ParamFields}
    \cup {[FullParams EXCEPT ![f] = "empty"] : f \in ParamFields}
    \cup {[f \in ParamFields |-> IF f = "filepath" THEN "set" ELSE "absent"],
          [f \in ParamFields |-> "absent"]}

\* a mutation of RequiredFields: word_number is not required
RequiredFieldsNoWordNumber(phase) ==
    IF phase = "architecture"
    THEN <<"topic", "genre", "num_chapters", "filepath">>
    ELSE <<"chapter_num", "filepath">>

\* a mutation of RequiredFields: the blueprint phase requires only filepath
RequiredFieldsBlueprintFilepath(phase) ==
    IF phase = "architecture"
    THEN <<"topic", "genre", "num_chapters", "word_number", "filepath">>
    ELSE IF phase = "blueprint" THEN <<"filepath">>
    ELSE <<"chapter_num", "filepath">>

\* required_fields of _validate_<phase>_params
RequiredFields(phase) ==
    IF phase = "architecture"
    THEN <<"topic", "genre", "num_chapters", "word_number", "filepath">>
    ELSE <<"chapter_num", "filepath">>

\* _validate_architecture_params, _validate_blueprint_params,
\* _validate_draft_params, _validate_finalization_params
validate_params(phase, params) ==
    \A i \in 1..Len(RequiredFields(phase)) :
        ~(params[RequiredFields(phase)[i]] = "absent"
          \/ params[RequiredFields(phase)[i]] # "set")

\* config_key_map of _get_llm_config_for_task
config_key_map ==
    [architecture |-> "architecture_llm", blueprint |-> "chapter_outline_llm",
     draft |-> "prompt_draft_llm", finalization |-> "final_chapter_llm"]

\* the data of the models attached: llm_configs is the list of the names of
\* the configured LLMs in dict order, choose_configs maps its keys to a name
\* ("" where the name is empty)
ModelChoices ==
    {[attached |-> TRUE, llm_configs |-> l, choose_configs |-> c] :
        l \in {<<>>, <<"DeepSeek">>, <<"GPT">>, <<"GPT", "DeepSeek">>},
        c \in {<<>>,
               [k \in {"architecture_llm", "chapter_outline_llm", "final_chapter_llm",
                       "consistency_review_llm", "prompt_draft_llm"} |-> "DeepSeek"],
               [architecture_llm |-> "GPT", chapter_outline_llm |-> "DeepSeek",
                prompt_draft_llm |-> "", final_chapter_llm |-> "GPT"]}}

\* no model attached
NoModel == [attached |-> FALSE, llm_configs |-> <<>>, choose_configs |-> <<>>]

\* llm_configs.get(config_name), for a config_name that is set
ResolvedName(configs, config_name) ==
    IF config_name \in Range(configs) THEN config_name ELSE "None"

\* _get_llm_config_for_task(task_type): the name of the configuration
\* returned, "None" where it returns None
get_llm_config_for_task(model, task_type) ==
    IF ~model.attached THEN "None"
    ELSE LET config_key == config_key_map[task_type]
             config_name == IF config_key \in DOMAIN model.choose_configs
                            THEN model.choose_configs[config_key] ELSE ""
         IN  IF config_name = ""
             THEN IF model.llm_configs # <<>> THEN model.llm_configs[1] ELSE "None"
             ELSE ResolvedName(model.llm_configs, config_name)

\* the record of a run that has not started
NoRunYet ==
    [phase |-> "none", params |-> FullParams, returned |-> "none", validated |-> FALSE,
     lookups |-> 0, configured |-> 0, llm_config |-> "None", started |-> 0, invoked |-> 0,
     delivered |-> <<>>, registered |-> 0, listener_raised |-> FALSE,
     cancelled |-> FALSE, handled |-> FALSE, emitted |-> <<>>]

\* event_type of the start_event of each generate method
StartedEvent ==
    [architecture |-> "architecture_generation_started",
     blueprint |-> "blueprint_generation_started",
     draft |-> "draft_generation_started",
     finalization |-> "finalization_started"]

\* event_type of the complete_event of each generate method
CompletedEvent ==
    [architecture |-> "architecture_generation_completed",
     blueprint |-> "blueprint_generation_completed",
     draft |-> "draft_generation_completed",
     finalization |-> "finalization_completed"]

\* a mutation of ResultEvents: a failed run emits an event of its own
ResultEventsWithFailed(phase, success) ==
    IF success THEN <<CompletedEvent[phase]>> ELSE <<"generation_failed">>

\* the events the generate methods emit in the handling of the result: the
\* success branch emits complete_event, the failure branch and the except
\* clause emit nothing
ResultEvents(phase, success) ==
    IF success THEN <<CompletedEvent[phase]>> ELSE <<>>

\* no run is dispatched
NoRun == [stage |-> "none", phase |-> "none", success |-> FALSE]

\* set_state(state): the state the controller is left in
set_state_call(state, raising) ==
    controller_emit_event_call(state, "state_changed", raising).state

\* _call_generation_callbacks(task_type, success, params): the calls made
call_generation_callbacks(callbacks, task_type, success) ==
    [i \in 1..(IF task_type \in DOMAIN callbacks THEN callbacks[task_type] ELSE 0) |->
        success]

\* add_generation_callback(task_type, callback)
add_generation_callback(task_type) ==
    /\ SumLen([t \in DOMAIN gen_callbacks |-> [i \in 1..gen_callbacks[t] |-> i]],
              DOMAIN gen_callbacks) < MaxCallbacks
    /\ gen_callbacks' = DictWith(gen_callbacks, task_type,
           (IF task_type \in DOMAIN gen_callbacks THEN gen_callbacks[task_type] ELSE 0) + 1)
    /\ UNCHANGED <<gen_model, gen_current_task, gen_run, gen_last>>
    /\ UNCHANGED ctl_vars
    /\ UNCHANGED nonGeneration

\* set_model(model)
set_model(model) ==
    /\ gen_model # model
    /\ gen_model' = model
    /\ UNCHANGED <<gen_current_task, gen_callbacks, gen_run, gen_last>>
    /\ UNCHANGED ctl_vars
    /\ UNCHANGED nonGeneration

\* a mutation of finally_clause: the marker is left as it is
finally_clauseKeeps(current_task) == current_task

\* the finally clause of the generate methods: self._current_task = None
finally_clause(current_task) == "None"

\* get_current_task()
get_current_task == gen_current_task

\* generate_novel_architecture, generate_chapter_blueprint,
\* generate_chapter_draft, finalize_chapter: from the call to the dispatch of
\* the generation function, or to the return where validation or the lookup fails
generate_start(phase, params, raising) ==
    /\ gen_run.stage = "none"
    /\ raising \subseteq 1..Len(ListenersOf(ctl_event_handlers, "state_changed"))
    /\ LET valid == validate_params(phase, params)
           llm_config == get_llm_config_for_task(gen_model, phase)
           begun == [NoRunYet EXCEPT !.phase = phase, !.params = params]
       IN  IF ~valid
           THEN /\ ctl_state' = set_state_call("error", raising)
                /\ gen_current_task' = finally_clause(TaskMarker[phase])
                /\ gen_run' = NoRun
                /\ gen_last' = [begun EXCEPT !.returned = "False"]
           ELSE IF llm_config = "None"
           THEN /\ ctl_state' = set_state_call("error", raising)
                /\ gen_current_task' = finally_clause(TaskMarker[phase])
                /\ gen_run' = NoRun
                /\ gen_last' = [begun EXCEPT !.returned = "False", !.validated = TRUE,
                                             !.lookups = 1,
                                             !.configured = Len(gen_model.llm_configs)]
           ELSE /\ ctl_state' = set_state_call("processing", raising)
                /\ gen_current_task' = TaskMarker[phase]
                /\ gen_run' = [stage |-> "dispatched", phase |-> phase, success |-> FALSE]
                /\ gen_last' = [begun EXCEPT !.validated = TRUE, !.lookups = 1,
                                             !.configured = Len(gen_model.llm_configs),
                                             !.llm_config = llm_config, !.started = 1,
                                             !.emitted = <<StartedEvent[phase]>>]
    /\ UNCHANGED <<gen_model, gen_callbacks>>
    /\ UNCHANGED <<ctl_event_handlers, ctl_error_handlers, ctl_view, ctl_last>>
    /\ UNCHANGED nonGeneration

\* _execute_<phase>: the worker calls the generation function, which returns
\* or raises
execute_generation(succeeds) ==
    /\ gen_run.stage = "dispatched"
    /\ gen_run' = [gen_run EXCEPT !.stage = "executed", !.success = succeeds]
    /\ gen_last' = [gen_last EXCEPT !.invoked = @ + 1]
    /\ UNCHANGED <<gen_model, gen_current_task, gen_callbacks>>
    /\ UNCHANGED ctl_vars
    /\ UNCHANGED nonGeneration

\* a mutation of run_end_state: a successful run ends in state idle
run_end_stateIdle(success) == IF success THEN "idle" ELSE "error"

\* the state set by the handling of the result: set_state(COMPLETED) after
\* a success, set_state(ERROR) after a failure
run_end_state(success) == IF success THEN "completed" ELSE "error"

\* the generate methods after the await: the handling of the result, and
\* the finally clause
generate_finish(raising) ==
    /\ gen_run.stage = "executed"
    /\ raising \subseteq 1..Len(ListenersOf(ctl_event_handlers, "state_changed"))
    /\ ctl_state' = set_state_call(run_end_state(gen_run.success), raising)
    /\ gen_last' = [gen_last EXCEPT
                       !.returned = IF gen_run.success THEN "True" ELSE "False",
                       !.delivered = @ \o call_generation_callbacks(gen_callbacks,
                                              gen_run.phase, gen_run.success),
                       !.registered = IF gen_run.phase \in DOMAIN gen_callbacks
                                      THEN gen_callbacks[gen_run.phase] ELSE 0,
                       !.listener_raised = raising # {},
                       !.emitted = @ \o ResultEvents(gen_run.phase, gen_run.success),
                       !.handled = TRUE]
    /\ gen_current_task' = finally_clause(gen_current_task)
    /\ gen_run' = NoRun
    /\ UNCHANGED <<gen_model, gen_callbacks>>
    /\ UNCHANGED <<ctl_event_handlers, ctl_error_handlers, ctl_view, ctl_last>>
    /\ UNCHANGED nonGeneration

\* a mutation of RunAfterCancel: cancelling stops the dispatched run
RunAfterCancelStopped(run) == NoRun

\* cancel_current_task() does not touch the work dispatched to the worker
RunAfterCancel(run) == run

\* cancel_current_task()
cancel_current_task(raising) ==
    /\ gen_current_task # "None"
    /\ raising \subseteq 1..Len(ListenersOf(ctl_event_handlers, "state_changed"))
    /\ gen_current_task' = "None"
    /\ ctl_state' = set_state_call("idle", raising)
    /\ gen_run' = RunAfterCancel(gen_run)
    /\ gen_last' = [gen_last EXCEPT !.cancelled = gen_run.stage # "none"]
    /\ UNCHANGED <<gen_model, gen_callbacks>>
    /\ UNCHANGED <<ctl_event_handlers, ctl_error_handlers, ctl_view, ctl_last>>
    /\ UNCHANGED nonGeneration

\* GenerationController.__init__
InitGeneration ==
    /\ gen_model = NoModel
    /\ gen_current_task = "None"
    /\ gen_callbacks = <<>>
    /\ gen_run = NoRun
    /\ gen_last = NoRunYet

(***************************************************************************)
(* LanguageManager (language_manager.py)                                   *)
(*                                                                         *)
(* A catalog is the JSON object of one locale's file: a node is a string,  *)
(* another JSON value, or an object of nodes.                              *)
(***************************************************************************)

\* available_languages
Locales == {"zh_CN", "en_US"}

\* default_language of __init__
default_language == "zh_CN"

\* a string of a catalog
Str(text) == [kind |-> "str", text |-> text, children |-> <<>>]

\* a JSON number of a catalog
Num == [kind |-> "num", text |-> "", children |-> <<>>]

\* a JSON object of a catalog
Dict(children) == [kind |-> "dict", text |-> "", children |-> children]

\* the catalogs the locale files hold
CatalogChoices ==
    {<<>>,
     [ui |-> Str("Save")],
     [ui |-> Dict([save |-> Str("Save")])],
     [ui |-> Dict([save |-> Str("Hi {name}")])],
     [ui |-> Dict([save |-> Str("Hi {}")])],
     [ui |-> Dict([save |-> Str("Hi {{x}}")])],
     [ui |-> Dict([save |-> Num])],
     [ui |-> Dict([save |-> Str("Save")]), save |-> Str("Keep")]}

\* the keys translated
TranslationKeys == {"ui", "save", "ui.save", "ui.save.tip"}

\* key.split('.')
split(key) ==
    CASE key = "ui" -> <<"ui">>
      [] key = "save" -> <<"save">>
      [] key = "ui.save" -> <<"ui", "save">>
      [] key = "ui.save.tip" -> <<"ui", "save", "tip">>

\* value.format(**kwargs) with no kwargs: a positional field raises
\* IndexError, a named field raises KeyError, doubled braces are unescaped
format(value) ==
    CASE value = "Hi {}" -> [raised |-> "IndexError", value |-> value]
      [] value = "Hi {name}" -> [raised |-> "KeyError", value |-> value]
      [] value = "Hi {{x}}" -> [raised |-> "None", value |-> "Hi {x}"]
      [] OTHER -> [raised |-> "None", value |-> value]

\* the loop of translate over the parts of the key: down the nested objects
\* while the part is a key of the object
RECURSIVE lookup(_, _, _)
lookup(value, keys, i) ==
    IF i > Len(keys) THEN [found |-> TRUE, value |-> value]
    ELSE IF value.kind = "dict" /\ keys[i] \in DOMAIN value.children
    THEN lookup(value.children[keys[i]], keys, i + 1)
    ELSE [found |-> FALSE, value |-> value]

\* translate(key): what it returns, or the exception it raises
translate_call(translations, current_language, key) ==
    LET current == lookup(Dict(translations[current_language]), split(key), 1)
        fallback == lookup(Dict(translations[default_language]), split(key), 1)
        resolved ==
            IF current.found THEN current
            ELSE IF current_language # default_language THEN fallback
            ELSE [found |-> FALSE, value |-> Num]
    IN  IF ~resolved.found THEN [raised |-> "None", value |-> key]
        ELSE IF resolved.value.kind = "str"
        THEN LET formatted == format(resolved.value.text)
             IN  IF formatted.raised \in {"KeyError", "ValueError"}
                 THEN [raised |-> "None", value |-> resolved.value.text]
                 ELSE formatted
        ELSE [raised |-> "None", value |-> key]

\* no translate call since the catalogs or the language changed
NoTranslation == [key |-> "", raised |-> "None", value |-> ""]

\* reload_language(language_code), the file holding the catalog
reload_language(language_code, catalog) ==
    /\ lm_translations[language_code] # catalog
    /\ lm_translations' = [lm_translations EXCEPT ![language_code] = catalog]
    /\ lm_last' = NoTranslation
    /\ UNCHANGED lm_current_language
    /\ UNCHANGED nonLanguage

\* set_language(language_code)
set_language(language_code) ==
    /\ language_code \in Locales
    /\ lm_current_language # language_code
    /\ lm_current_language' = language_code
    /\ lm_last' = NoTranslation
    /\ UNCHANGED lm_translations
    /\ UNCHANGED nonLanguage

\* translate(key)
translate(key) ==
    /\ \E r \in {translate_call(lm_translations, lm_current_language, key)} :
           lm_last' = [key |-> key, raised |-> r.raised, value |-> r.value]
    /\ UNCHANGED <<lm_translations, lm_current_language>>
    /\ UNCHANGED nonLanguage

\* LanguageManager.__init__, no locale file present
InitLanguage ==
    /\ lm_translations = [l \in Locales |-> <<>>]
    /\ lm_current_language = default_language
    /\ lm_last = NoTranslation

(***************************************************************************)
(* PluginManager (plugins/manager.py)                                      *)
(*                                                                         *)
(* The manager's crash handler and version manager are the ones above.  A  *)
(* plugin's code is given by what it does when the manager calls it.       *)
(***************************************************************************)

\* a version string of one to three segments
V(release) == [valid |-> TRUE, release |-> release]

\* the plugin.json descriptors discovered: version, min_app_version
\* (<<>>: not given) and dependencies
MetadataChoices ==
    {[version |-> V(<<1, 0>>), min_app_version |-> <<>>, dependencies |-> {}],
     [version |-> V(<<1, 1>>), min_app_version |-> <<>>, dependencies |-> {}],
     [version |-> V(<<0, 1>>), min_app_version |-> <<>>, dependencies |-> {}],
     [version |-> V(<<1, 0>>), min_app_version |-> <<V(<<1, 1>>)>>, dependencies |-> {}]}

\* descriptors that declare dependencies on other plugins
DependentMetadataChoices ==
    {[version |-> V(<<1, 0>>), min_app_version |-> <<>>, dependencies |-> deps] :
        deps \in {{}, {"pB"}}}

\* the application versions the manager is constructed with
AppVersionChoices == {V(<<1, 0>>), V(<<1, 1>>)}

\* what the code of a plugin does while it is loaded
LoadBehaviours ==
    {"ok", "no_module", "ctor_raises", "init_false", "init_raises", "listen_raises"}

\* what plugin.cleanup() does
CleanupBehaviours == {"ok", "raise"}

\* the names of services, and plugin.get_services() of each plugin
ServiceNames == {"generate", "export"}

get_services == [pA |-> {"generate"}, pB |-> {"generate", "export"}]

\* the manager's data and its crash handler's as one record, for the
\* operators below; loads: an entry for each load_plugin call, in order
ManagerData ==
    [c |-> CrashData, loaded |-> mgr_loaded, callbacks |-> recovery_callbacks,
     loads |-> <<>>, crashes |-> 0, modules |-> mgr_modules,
     handlers |-> mgr_handlers, registry |-> mgr_registry]

\* version_manager.check_compatibility on the metadata of the plugin
verdict_of(registry, plugin_name) ==
    IF registry[plugin_name] = <<>> THEN "none"
    ELSE check_compatibility_call(app_version, compatibility_rules, plugin_name,
                                  registry[plugin_name][1].version,
                                  registry[plugin_name][1].min_app_version)

\* _check_version_compatibility(metadata), on the level returned
check_version_compatibility(level) ==
    level \in {"compatible", "backward", "deprecated"}

\* event_system.register_listener(plugin_name, listener): a handler of
\* priority NORMAL on each of the common events
register_listener_call(handlers, plugin_name) ==
    [e \in EventNames |->
        SortByPriority(Append(handlers[e],
            [id |-> 0, plugin_name |-> plugin_name, priority |-> 2]))]

\* event_system.unregister_listener(plugin_name)
unregister_listener_call(handlers, plugin_name) ==
    [e \in EventNames |-> HandlersWithout(handlers[e], plugin_name, 0)]

\* the plugins that own a handler in the handler lists
HandlerOwners(handlers) ==
    UNION {{handlers[e][i].plugin_name : i \in 1..Len(handlers[e])} : e \in EventNames}

\* the instance and the module of the plugin are stored
Stored(d, plugin_name) ==
    [d EXCEPT !.loaded = @ \cup {plugin_name}, !.modules = @ \cup {plugin_name}]

\* crash_handler.handle_crash(plugin_name, e, "plugin_load", CrashSeverity.HIGH)
report_load_failure(d, plugin_name) ==
    LET r == handle_crash_call(d.c, get_plugin_policy(plugin_policies, plugin_name),
                               plugin_name \in d.callbacks, plugin_name,
                               load_failure_severity, <<"ok">>)
    IN  [d EXCEPT !.c = r.c, !.crashes = @ + 1]

\* registry.get_dependencies(plugin_name) on the manager's registry
get_plugin_dependencies(registry, plugin_name) ==
    IF registry[plugin_name] = <<>> THEN {} ELSE registry[plugin_name][1].dependencies

\* registry.check_dependencies(plugin_name): the dependencies not registered
check_dependencies(registry, plugin_name) ==
    {dep \in get_plugin_dependencies(registry, plugin_name) : registry[dep] = <<>>}

\* a mutation of load_plugin_call: the loaded test comes before the disabled test
load_plugin_callLoadedFirst(d, plugin_name, verdict, behaviour) ==
    LET entry == [was_disabled |-> plugin_name \in d.c.disabled,
                  was_loaded |-> plugin_name \in d.loaded, verdict |-> verdict,
                  behaviour |-> behaviour,
                  missing |-> check_dependencies(d.registry, plugin_name),
                  not_loaded |-> get_plugin_dependencies(d.registry, plugin_name) \ d.loaded,
                  instantiated |-> FALSE, initialized |-> FALSE, returned |-> FALSE]
    IN  IF plugin_name \in d.loaded
        THEN [d EXCEPT !.loads = Append(@, [entry EXCEPT !.returned = TRUE])]
        ELSE IF plugin_name \in d.c.disabled \/ ~check_version_compatibility(verdict)
                \/ behaviour # "ok"
        THEN [d EXCEPT !.loads = Append(@, entry)]
        ELSE [Stored(d, plugin_name) EXCEPT
                       !.handlers = register_listener_call(@, plugin_name),
                       !.callbacks = @ \cup {plugin_name},
                       !.loads = Append(@, [entry EXCEPT !.instantiated = TRUE,
                                    !.initialized = TRUE, !.returned = TRUE])]

\* a mutation of load_plugin_call: a plugin with a dependency that is not
\* registered is refused
load_plugin_callCheckingDependencies(d, plugin_name, verdict, behaviour) ==
    LET entry == [was_disabled |-> plugin_name \in d.c.disabled,
                  was_loaded |-> plugin_name \in d.loaded, verdict |-> verdict,
                  behaviour |-> behaviour,
                  missing |-> check_dependencies(d.registry, plugin_name),
                  not_loaded |-> get_plugin_dependencies(d.registry, plugin_name) \ d.loaded,
                  instantiated |-> FALSE, initialized |-> FALSE, returned |-> FALSE]
        made == [entry EXCEPT !.instantiated = TRUE]
        inited == [made EXCEPT !.initialized = TRUE]
    IN  IF plugin_name \in d.c.disabled
        THEN [d EXCEPT !.loads = Append(@, entry)]
        ELSE IF plugin_name \in d.loaded
        THEN [d EXCEPT !.loads = Append(@, [entry EXCEPT !.returned = TRUE])]
        ELSE IF verdict = "none" \/ ~check_version_compatibility(verdict)
                \/ check_dependencies(d.registry, plugin_name) # {}
        THEN [d EXCEPT !.loads = Append(@, entry)]
        ELSE CASE behaviour = "no_module" ->
                    [d EXCEPT !.loads = Append(@, entry)]
               [] behaviour = "ctor_raises" ->
                    [report_load_failure(d, plugin_name) EXCEPT !.loads = Append(@, made)]
               [] behaviour = "init_false" ->
                    [d EXCEPT !.loads = Append(@, inited)]
               [] behaviour = "init_raises" ->
                    [report_load_failure(d, plugin_name) EXCEPT !.loads = Append(@, inited)]
               [] behaviour = "listen_raises" ->
                    [report_load_failure(Stored(d, plugin_name), plugin_name)
                        EXCEPT !.loads = Append(@, inited)]
               [] OTHER ->
                    [Stored(d, plugin_name) EXCEPT
                              !.handlers = register_listener_call(@, plugin_name),
                              !.callbacks = @ \cup {plugin_name},
                              !.loads = Append(@, [inited EXCEPT !.returned = TRUE])]

\* load_plugin(plugin_name) on the data d: the data left, with the entry of
\* this call appended to d.loads
load_plugin_call(d, plugin_name, verdict, behaviour) ==
    LET entry == [was_disabled |-> plugin_name \in d.c.disabled,
                  was_loaded |-> plugin_name \in d.loaded, verdict |-> verdict,
                  behaviour |-> behaviour,
                  missing |-> check_dependencies(d.registry, plugin_name),
                  not_loaded |-> get_plugin_dependencies(d.registry, plugin_name) \ d.loaded,
                  instantiated |-> FALSE, initialized |-> FALSE, returned |-> FALSE]
        made == [entry EXCEPT !.instantiated = TRUE]
        inited == [made EXCEPT !.initialized = TRUE]
    IN  IF plugin_name \in d.c.disabled
        THEN [d EXCEPT !.loads = Append(@, entry)]
        ELSE IF plugin_name \in d.loaded
        THEN [d EXCEPT !.loads = Append(@, [entry EXCEPT !.returned = TRUE])]
        ELSE IF verdict = "none" \/ ~check_version_compatibility(verdict)
        THEN [d EXCEPT !.loads = Append(@, entry)]
        ELSE CASE behaviour = "no_module" ->
                    [d EXCEPT !.loads = Append(@, entry)]
               [] behaviour = "ctor_raises" ->
                    [report_load_failure(d, plugin_name) EXCEPT !.loads = Append(@, made)]
               [] behaviour = "init_false" ->
                    [d EXCEPT !.loads = Append(@, inited)]
               [] behaviour = "init_raises" ->
                    [report_load_failure(d, plugin_name) EXCEPT !.loads = Append(@, inited)]
               [] behaviour = "listen_raises" ->
                    [report_load_failure(Stored(d, plugin_name), plugin_name)
                        EXCEPT !.loads = Append(@, inited)]
               [] OTHER ->
                    [Stored(d, plugin_name) EXCEPT
                              !.handlers = register_listener_call(@, plugin_name),
                              !.callbacks = @ \cup {plugin_name},
                              !.loads = Append(@, [inited EXCEPT !.returned = TRUE])]

\* a mutation of unload_plugin_call: the listener is removed before cleanup()
\* is called
unload_plugin_callUnregisterFirst(d, plugin_name, cleanup) ==
    IF plugin_name \notin d.loaded THEN [d |-> d, returned |-> TRUE]
    ELSE IF cleanup = "raise"
    THEN [d |-> [d EXCEPT !.handlers = unregister_listener_call(@, plugin_name)],
          returned |-> FALSE]
    ELSE [d |-> [d EXCEPT !.handlers = unregister_listener_call(@, plugin_name),
                          !.loaded = @ \ {plugin_name},
                          !.modules = @ \ {plugin_name}],
          returned |-> TRUE]

\* unload_plugin(plugin_name) on the data d: the data left and the value
\* returned; the removal of the plugin's logger is taken to return normally
unload_plugin_call(d, plugin_name, cleanup) ==
    IF plugin_name \notin d.loaded THEN [d |-> d, returned |-> TRUE]
    ELSE IF cleanup = "raise" THEN [d |-> d, returned |-> FALSE]
    ELSE [d |-> [d EXCEPT !.handlers = unregister_listener_call(@, plugin_name),
                          !.loaded = @ \ {plugin_name},
                          !.modules = @ \ {plugin_name}],
          returned |-> TRUE]

\* reload_plugin(plugin_name) on the data d
reload_plugin_call(d, plugin_name, verdict, cleanup, behaviour) ==
    LET unloaded == unload_plugin_call(d, plugin_name, cleanup)
    IN  IF unloaded.returned
        THEN load_plugin_call(unloaded.d, plugin_name, verdict, behaviour)
        ELSE unloaded.d

\* a mutation of handle_crash_reloading: a plugin that handle_crash disables
\* is unloaded too
handle_crash_reloadingUnloadingDisabled(d, plugin_name, severity, verdict, cleanup, behaviour) ==
    LET r == handle_crash_call(d.c, get_plugin_policy(plugin_policies, plugin_name),
                               plugin_name \in d.callbacks, plugin_name, severity, <<"ok">>)
        d1 == [d EXCEPT !.c = r.c, !.crashes = @ + 1]
    IN  IF r.returned
        THEN reload_plugin_call(d1, plugin_name, verdict, cleanup, behaviour)
        ELSE IF plugin_name \in r.c.disabled
        THEN unload_plugin_call(d1, plugin_name, "ok").d
        ELSE d1

\* crash_handler.handle_crash(plugin_name, e, operation), the recovery
\* callback being the one load_plugin registered: reload_plugin(plugin_name)
handle_crash_reloading(d, plugin_name, severity, verdict, cleanup, behaviour) ==
    LET r == handle_crash_call(d.c, get_plugin_policy(plugin_policies, plugin_name),
                               plugin_name \in d.callbacks, plugin_name, severity, <<"ok">>)
        d1 == [d EXCEPT !.c = r.c, !.crashes = @ + 1]
    IN  IF r.returned
        THEN reload_plugin_call(d1, plugin_name, verdict, cleanup, behaviour)
        ELSE d1

\* a mutation of call_plugin_service_check: no test of the crash handler
call_plugin_service_checkLoadedOnly(disabled, loaded, plugin_name, service_name) ==
    IF plugin_name \notin loaded THEN "not_loaded"
    ELSE IF service_name \notin get_services[plugin_name] THEN "no_service"
    ELSE "run"

\* the tests of call_plugin_service before the service is called: the
\* ValueError raised ("disabled", "not_loaded", "no_service"), or "run"
call_plugin_service_check(disabled, loaded, plugin_name, service_name) ==
    IF plugin_name \in disabled THEN "disabled"
    ELSE IF plugin_name \notin loaded THEN "not_loaded"
    ELSE IF service_name \notin get_services[plugin_name] THEN "no_service"
    ELSE "run"

\* no operation of the manager yet
NoOperation ==
    [op |-> "none", plugin_name |-> "none", was_disabled |-> FALSE, was_loaded |-> FALSE,
     service_name |-> "none", error |-> "None", service_runs |-> 0, loads |-> <<>>,
     cleanup |-> "none", returned |-> FALSE, owned_handlers |-> FALSE,
     event_name |-> "none", invoked |-> <<>>]

\* the data d becomes the state of the manager and of its crash handler
ManagerBecomes(d, plugin_name) ==
    /\ crash_records' = d.c.records
    /\ crash_counts' = d.c.counts
    /\ disabled_plugins' = d.c.disabled
    /\ restart_attempts' = d.c.restarts
    /\ recovery_callbacks' = d.callbacks
    /\ ch_calls' = [ch_calls EXCEPT ![plugin_name] = @ + d.crashes]
    /\ mgr_loaded' = d.loaded
    /\ mgr_modules' = d.modules
    /\ mgr_handlers' = d.handlers
    /\ UNCHANGED <<plugin_policies, ch_last, mgr_registry>>
    /\ UNCHANGED nonManager

\* the crash handler may take another crash of the plugin
MayCrash(plugin_name) ==
    /\ ch_calls["pA"] + ch_calls["pB"] < MaxCrashes
    /\ plugin_name = "pB" => ch_calls["pB"] < MaxOtherCrashes

\* the record of an operation on plugin_name
Operation(op, plugin_name) ==
    [NoOperation EXCEPT !.op = op, !.plugin_name = plugin_name,
                        !.was_disabled = plugin_name \in disabled_plugins,
                        !.was_loaded = plugin_name \in mgr_loaded,
                        !.owned_handlers = plugin_name \in HandlerOwners(mgr_handlers)]

\* discover_plugins(): the plugin.json of a plugin directory is registered
discover_plugins(plugin_name, metadata) ==
    /\ vm_constructed
    /\ mgr_registry[plugin_name] # <<metadata>>
    /\ mgr_registry' = [mgr_registry EXCEPT ![plugin_name] = <<metadata>>]
    /\ mgr_last' = NoOperation
    /\ UNCHANGED <<mgr_loaded, mgr_modules, mgr_handlers>>
    /\ UNCHANGED ch_vars
    /\ UNCHANGED nonManager

\* load_plugin(plugin_name)
load_plugin(plugin_name, behaviour) ==
    /\ vm_constructed
    /\ MayCrash(plugin_name)
    /\ \E d \in {load_plugin_call(ManagerData, plugin_name,
                                  verdict_of(mgr_registry, plugin_name), behaviour)} :
          /\ ManagerBecomes(d, plugin_name)
          /\ mgr_last' = [Operation("load_plugin", plugin_name) EXCEPT !.loads = d.loads]

\* unload_plugin(plugin_name)
unload_plugin(plugin_name, cleanup) ==
    /\ vm_constructed
    /\ \E r \in {unload_plugin_call(ManagerData, plugin_name, cleanup)} :
          /\ ManagerBecomes(r.d, plugin_name)
          /\ mgr_last' = [Operation("unload_plugin", plugin_name) EXCEPT
                             !.cleanup = cleanup, !.returned = r.returned]

\* reload_plugin(plugin_name)
reload_plugin(plugin_name, cleanup, behaviour) ==
    /\ vm_constructed
    /\ MayCrash(plugin_name)
    /\ \E d \in {reload_plugin_call(ManagerData, plugin_name,
                                    verdict_of(mgr_registry, plugin_name),
                                    cleanup, behaviour)} :
          /\ ManagerBecomes(d, plugin_name)
          /\ mgr_last' = [Operation("reload_plugin", plugin_name) EXCEPT
                             !.loads = d.loads, !.cleanup = cleanup,
                             !.returned = d.loads # <<>> /\ d.loads[Len(d.loads)].returned]

\* crash_handler.handle_crash(plugin_name, exception, operation), the
\* manager's recovery callbacks being the registered ones
manager_handle_crash(plugin_name, exception, cleanup, behaviour) ==
    /\ vm_constructed
    /\ MayCrash(plugin_name)
    /\ \E d \in {handle_crash_reloading(ManagerData, plugin_name,
                     assess_crash_severity(exception),
                     verdict_of(mgr_registry, plugin_name), cleanup, behaviour)} :
          /\ ManagerBecomes(d, plugin_name)
          /\ mgr_last' = [Operation("handle_crash", plugin_name) EXCEPT !.loads = d.loads]

\* call_plugin_service(plugin_name, service_name): outcome is "ok" or the
\* class of the exception the service raises
call_plugin_service(plugin_name, service_name, outcome, cleanup, behaviour) ==
    /\ vm_constructed
    /\ MayCrash(plugin_name)
    /\ LET check == call_plugin_service_check(disabled_plugins, mgr_loaded,
                                              plugin_name, service_name)
           called == [Operation("call_plugin_service", plugin_name)
                         EXCEPT !.service_name = service_name]
       IN  IF check # "run"
           THEN /\ mgr_last' = [called EXCEPT !.error = check]
                /\ UNCHANGED <<mgr_registry, mgr_loaded, mgr_modules, mgr_handlers>>
                /\ UNCHANGED ch_vars
                /\ UNCHANGED nonManager
           ELSE IF outcome = "ok"
           THEN /\ mgr_last' = [called EXCEPT !.service_runs = 1]
                /\ UNCHANGED <<mgr_registry, mgr_loaded, mgr_modules, mgr_handlers>>
                /\ UNCHANGED ch_vars
                /\ UNCHANGED nonManager
           ELSE \E d \in {handle_crash_reloading(ManagerData, plugin_name,
                              assess_crash_severity(outcome),
                              verdict_of(mgr_registry, plugin_name), cleanup, behaviour)} :
                   /\ ManagerBecomes(d, plugin_name)
                   /\ mgr_last' = [called EXCEPT !.service_runs = 1, !.error = outcome,
                                                 !.loads = d.loads]

\* the plugins whose handlers emit_event_object invokes for the event, in
\* the order of the handler list: the crash handler is not consulted
invoked_plugins(handlers, event_name) ==
    [i \in 1..Len(handlers[event_name]) |-> handlers[event_name][i].plugin_name]

\* emit_event(event_name, data) of the manager: event_system.emit_event
manager_emit_event(event_name) ==
    /\ vm_constructed
    /\ mgr_last' = [NoOperation EXCEPT !.op = "emit_event", !.event_name = event_name,
                        !.invoked = invoked_plugins(mgr_handlers, event_name)]
    /\ UNCHANGED <<mgr_registry, mgr_loaded, mgr_modules, mgr_handlers>>
    /\ UNCHANGED ch_vars
    /\ UNCHANGED nonManager

\* PluginManager.__init__, before discover_plugins finds a plugin
InitManager ==
    /\ mgr_registry = [q \in Plugins |-> <<>>]
    /\ mgr_loaded = {}
    /\ mgr_modules = {}
    /\ mgr_handlers = [e \in EventNames |-> <<>>]
    /\ mgr_last = NoOperation

(***************************************************************************)
(* initialize() of ConfigController, NovelController, GenerationController *)
(* (ui/controllers/config_controller.py, novel_controller.py,              *)
(* generation_controller.py)                                               *)
(***************************************************************************)

\* the controllers
Controllers == {"ConfigController", "NovelController", "GenerationController"}

\* what the model of a ConfigController does when its configuration is
\* loaded: load_configuration and _get_current_config return ("ok"),
\* load_configuration returns False ("fails"), _get_current_config returns
\* nothing ("no_data"), the model has no load_configuration ("no_method"),
\* or one of them raises ("raises")
LoadOutcomes == {"ok", "fails", "no_data", "no_method", "raises"}

\* no initialize() call yet
NotInitialized ==
    [controller |-> "none", with_model |-> FALSE, with_view |-> FALSE,
     returned |-> "none"]

\* validate_dependencies()
validate_dependencies == gen_model.attached /\ ctl_view # "None"

\* the record of an initialize() call
Initialized(controller, returned) ==
    [controller |-> controller, with_model |-> gen_model.attached,
     with_view |-> ctl_view # "None", returned |-> returned]

\* ConfigController.initialize(), load_configuration() included: the state
\* of its last set_state and the value returned
config_initialize_call(attached, outcome) ==
    IF ~attached THEN [state |-> "error", returned |-> "False"]
    ELSE IF outcome = "ok" THEN [state |-> "completed", returned |-> "True"]
    ELSE [state |-> "error", returned |-> "False"]

\* ConfigController.initialize()
config_initialize(outcome, raising) ==
    /\ raising \subseteq 1..Len(ListenersOf(ctl_event_handlers, "state_changed"))
    /\ LET r == config_initialize_call(gen_model.attached, outcome)
       IN  /\ ctl_state' = set_state_call(r.state, raising)
           /\ init_last' = Initialized("ConfigController", r.returned)
    /\ UNCHANGED <<ctl_event_handlers, ctl_error_handlers, ctl_view, ctl_last>>
    /\ UNCHANGED nonInitialize

\* NovelController.initialize() and GenerationController.initialize()
controller_initialize(controller, raising) ==
    /\ controller \in {"NovelController", "GenerationController"}
    /\ raising \subseteq 1..Len(ListenersOf(ctl_event_handlers, "state_changed"))
    /\ IF ~validate_dependencies
       THEN /\ init_last' = Initialized(controller, "False")
            /\ UNCHANGED ctl_state
       ELSE /\ ctl_state' = set_state_call("idle", raising)
            /\ init_last' = Initialized(controller, "True")
    /\ UNCHANGED <<ctl_event_handlers, ctl_error_handlers, ctl_view, ctl_last>>
    /\ UNCHANGED nonInitialize

\* before any initialize() call
InitInitialize == init_last = NotInitialized

(***************************************************************************)
(* ConfigController: the configuration cache and test_llm_configuration    *)
(* (ui/controllers/config_controller.py)                                   *)
(*                                                                         *)
(* An LLM configuration is a dict; of its keys the model keeps api_key,    *)
(* base_url and model_name, and whether it has any other key.  A value is  *)
(* a text, None, or absent (the key is not in the dict).                   *)
(***************************************************************************)

\* the key is not in the dict
Absent == "<absent>"

\* the values of a key of an LLM configuration: absent, None, and texts
\* that are empty, blank, padded and plain
TestFieldValues == {Absent, "<None>", "", "  ", " v ", "v"}

\* the keys test_llm_configuration requires, in the order it checks them
TestFields == <<"api_key", "base_url", "model_name">>

\* str.strip()
strip(text) ==
    CASE text = "  " -> ""
      [] text = " v " -> "v"
      [] OTHER -> text

\* None, where a configuration is expected
NoLLMConfig ==
    [is_dict |-> FALSE, api_key |-> Absent, base_url |-> Absent, model_name |-> Absent,
     other_keys |-> FALSE]

\* the dict {}
EmptyLLMConfig == [NoLLMConfig EXCEPT !.is_dict = TRUE]

\* the LLM configurations: every value of the three keys in a dict that has
\* other keys as well, and the empty dict
TestConfigChoices ==
    {[is_dict |-> TRUE, api_key |-> a, base_url |-> b, model_name |-> m, other_keys |-> TRUE] :
        a \in TestFieldValues, b \in TestFieldValues, m \in TestFieldValues}
    \cup {EmptyLLMConfig}

\* a configuration with every required key set
GoodLLMConfig ==
    [is_dict |-> TRUE, api_key |-> " v ", base_url |-> "v", model_name |-> "v",
     other_keys |-> TRUE]

\* the names of the LLM configurations
TestConfigNames == {"A", "B"}

\* the configuration data: llm_configs as the list of its names in dict
\* order and the configuration of each, and last_llm_config_name
ConfigData(names, configs, last) ==
    [names |-> names, configs |-> configs, last_llm_config_name |-> last]

\* the dict {} of ConfigController.__init__
EmptyConfigData == ConfigData(<<>>, <<>>, Absent)

\* the configuration data explored: one configuration named A, and two
\* configurations with each choice of last_llm_config_name
ConfigDataChoices ==
    {ConfigData(<<"A">>, [n \in {"A"} |-> c], Absent) : c \in TestConfigChoices}
    \cup {ConfigData(<<"A", "B">>,
                     [n \in {"A", "B"} |-> IF n = "A" THEN GoodLLMConfig
                                           ELSE [GoodLLMConfig EXCEPT !.api_key = ""]],
                     last) : last \in {Absent, "A", "B", "C"}}
    \cup {ConfigData(<<"B", "A">>,
                     [n \in {"A", "B"} |-> IF n = "A" THEN GoodLLMConfig
                                           ELSE [GoodLLMConfig EXCEPT !.model_name = "  "]],
                     Absent)}
    \cup {EmptyConfigData}

\* bool(llm_config): None and the empty dict are false
ConfigTruthy(config) ==
    /\ config.is_dict
    /\ \/ config.other_keys
       \/ \E i \in 1..Len(TestFields) : config[TestFields[i]] # Absent

\* _get_llm_config_by_name(config_name)
get_llm_config_by_name(cache, config_name) ==
    IF config_name \in Range(cache.names) THEN cache.configs[config_name] ELSE NoLLMConfig

\* _extract_current_configs(config_data): the current LLM configuration
extract_current_configs(config_data, current) ==
    IF config_data.names = <<>> THEN current
    ELSE IF config_data.last_llm_config_name \in Range(config_data.names)
    THEN config_data.configs[config_data.last_llm_config_name]
    ELSE config_data.configs[config_data.names[1]]

\* the record of a test_llm_configuration call that found no configuration
NoTest ==
    [op |-> "none", config_name |-> "", llm_config |-> NoLLMConfig, returned |-> "none",
     invoked |-> 0, passed |-> <<>>, shown |-> "none", emitted |-> <<>>]

RECURSIVE FirstBlankFieldNoModelName(_, _)
\* a mutation of FirstBlankField: model_name is not checked
FirstBlankFieldNoModelName(config, i) ==
    IF i > 2 THEN 0
    ELSE IF strip(IF config[TestFields[i]] = Absent THEN "" ELSE config[TestFields[i]]) = ""
    THEN i
    ELSE FirstBlankFieldNoModelName(config, i + 1)

RECURSIVE FirstBlankField(_, _)
\* the checks of api_key, base_url and model_name from the i-th on: the
\* index of the first key whose value, stripped, is empty; 0 if there is
\* none; -1 if a value before it is None, on which strip() raises
FirstBlankField(config, i) ==
    IF i > Len(TestFields) THEN 0
    ELSE LET value == IF config[TestFields[i]] = Absent THEN "" ELSE config[TestFields[i]]
         IN  IF value = "<None>" THEN -1
             ELSE IF strip(value) = "" THEN i
             ELSE FirstBlankField(config, i + 1)

\* the message test_llm_configuration shows for the i-th key
BlankFieldMessage == <<"api_key_missing", "base_url_missing", "model_name_missing">>

\* test_llm_configuration(config_name), where the connectivity-test routine,
\* if it is called, returns True or False or raises (outcome): the state left
\* by the last set_state apart from its listeners, the value returned, the
\* calls of the routine with the arguments passed, the message shown to the
\* view, the events emitted
test_llm_configuration_call(cache, current, config_name, outcome) ==
    LET llm_config == IF config_name # "" THEN get_llm_config_by_name(cache, config_name)
                      ELSE current
        blank == FirstBlankField(llm_config, 1)
        begun == [NoTest EXCEPT !.op = "test_llm_configuration",
                                !.config_name = config_name,
                                !.llm_config = llm_config,
                                !.returned = "False"]
        called == [begun EXCEPT !.invoked = 1,
                                !.passed = [i \in 1..Len(TestFields) |->
                                               strip(llm_config[TestFields[i]])]]
    IN  IF ~ConfigTruthy(llm_config)
        THEN [state |-> "error", last |-> [begun EXCEPT !.shown = "not_found"]]
        ELSE IF blank = -1
        THEN [state |-> "error", last |-> [begun EXCEPT !.shown = "exception"]]
        ELSE IF blank > 0
        THEN [state |-> "error", last |-> [begun EXCEPT !.shown = BlankFieldMessage[blank]]]
        ELSE IF outcome = "True"
        THEN [state |-> "completed",
              last |-> [called EXCEPT !.returned = "True", !.shown = "success",
                                      !.emitted = <<"llm_test_success">>]]
        ELSE IF outcome = "False"
        THEN [state |-> "error", last |-> [called EXCEPT !.shown = "failed"]]
        ELSE [state |-> "error", last |-> [called EXCEPT !.shown = "exception"]]

\* the outcomes of the connectivity-test routine test_llm_config
TestOutcomes == {"True", "False", "raises"}

\* test_llm_configuration(config_name)
test_llm_configuration(config_name, outcome, raising) ==
    /\ raising \subseteq 1..Len(ListenersOf(ctl_event_handlers, "state_changed"))
    /\ \E r \in {test_llm_configuration_call(tl_config_cache, tl_current_llm_config,
                                             config_name, outcome)} :
          /\ ctl_state' = set_state_call(r.state, raising)
          /\ tl_last' = [r.last EXCEPT !.shown = IF ctl_view = "view" THEN @ ELSE "none"]
    /\ UNCHANGED <<tl_config_cache, tl_current_llm_config>>
    /\ UNCHANGED <<ctl_event_handlers, ctl_error_handlers, ctl_view, ctl_last>>
    /\ UNCHANGED nonLLMTest

\* what the model does when the configuration is loaded: it returns the
\* configuration data, load_configuration returns False, _get_current_config
\* returns nothing, the model has no load_configuration, or one of them
\* raises
ControllerLoadOutcomes == {"ok", "fails", "no_data", "no_method", "raises"}

\* the record of an operation of the controller that tests nothing
Operated(op, returned) == [NoTest EXCEPT !.op = op, !.returned = returned]

\* a mutation of StateWithoutMethod: the branch sets the state ERROR
StateWithoutMethodError(raising) == set_state_call("error", raising)

\* the state load_configuration and save_configuration leave when the model
\* lacks the method: the set_state(PROCESSING) of their first line is the
\* last one, the else branch logs and returns False
StateWithoutMethod(raising) == set_state_call("processing", raising)

\* ConfigController.load_configuration()
controller_load_configuration(outcome, config_data, raising) ==
    /\ raising \subseteq 1..Len(ListenersOf(ctl_event_handlers, "state_changed"))
    /\ IF outcome = "ok"
       THEN /\ tl_config_cache' = config_data
            /\ tl_current_llm_config' =
                  extract_current_configs(config_data, tl_current_llm_config)
            /\ ctl_state' = set_state_call("completed", raising)
       ELSE /\ UNCHANGED <<tl_config_cache, tl_current_llm_config>>
            /\ ctl_state' = IF outcome = "raises" THEN "error"
                            ELSE IF outcome = "no_method" THEN StateWithoutMethod(raising)
                            ELSE set_state_call("idle", raising)
    /\ tl_last' = NoTest
    /\ UNCHANGED <<ctl_event_handlers, ctl_error_handlers, ctl_view, ctl_last>>
    /\ UNCHANGED nonLLMTest

\* _validate_config_data(config_data): llm_configs and embedding_configs are
\* there and are dicts that are not empty
validate_config_data(config_data, embeddings) ==
    config_data.names # <<>> /\ embeddings

\* what the model does when the configuration is saved: save_config
\* returns True or False, the model has no save_config, or it raises
ControllerSaveOutcomes == {"ok", "fails", "no_method", "raises"}

\* ConfigController.save_configuration(config_data); embeddings: config_data
\* has embedding configurations
controller_save_configuration(outcome, config_data, embeddings, raising) ==
    /\ raising \subseteq 1..Len(ListenersOf(ctl_event_handlers, "state_changed"))
    /\ IF ~validate_config_data(config_data, embeddings)
       THEN /\ ctl_state' = set_state_call("error", raising)
            /\ tl_last' = Operated("save_configuration", "False")
            /\ UNCHANGED <<tl_config_cache, tl_current_llm_config>>
       ELSE IF outcome = "ok"
       THEN /\ tl_config_cache' = config_data
            /\ tl_current_llm_config' =
                  extract_current_configs(config_data, tl_current_llm_config)
            /\ ctl_state' = set_state_call("completed", raising)
            /\ tl_last' = Operated("save_configuration", "True")
       ELSE /\ UNCHANGED <<tl_config_cache, tl_current_llm_config>>
            /\ ctl_state' = IF outcome = "no_method" THEN StateWithoutMethod(raising)
                            ELSE set_state_call("error", raising)
            /\ tl_last' = Operated("save_configuration", "False")
    /\ UNCHANGED <<ctl_event_handlers, ctl_error_handlers, ctl_view, ctl_last>>
    /\ UNCHANGED nonLLMTest

\* ConfigController.initialize() on a controller with a model, its
\* load_configuration() included
controller_config_initialize(outcome, config_data, raising) ==
    /\ raising \subseteq 1..Len(ListenersOf(ctl_event_handlers, "state_changed"))
    /\ LET r == config_initialize_call(TRUE, outcome)
       IN  /\ ctl_state' = set_state_call(r.state, raising)
           /\ tl_last' = Operated("initialize", r.returned)
    /\ IF outcome = "ok"
       THEN /\ tl_config_cache' = config_data
            /\ tl_current_llm_config' =
                  extract_current_configs(config_data, tl_current_llm_config)
       ELSE UNCHANGED <<tl_config_cache, tl_current_llm_config>>
    /\ UNCHANGED <<ctl_event_handlers, ctl_error_handlers, ctl_view, ctl_last>>
    /\ UNCHANGED nonLLMTest

\* what test_embedding_configuration meets: no configuration of the
\* interface format in the cache, or the connectivity-test routine returns
\* True or False or raises
EmbeddingTestOutcomes == {"not_found", "True", "False", "raises"}

\* test_embedding_configuration(interface_format)
test_embedding_configuration(outcome, raising) ==
    /\ raising \subseteq 1..Len(ListenersOf(ctl_event_handlers, "state_changed"))
    /\ ctl_state' = IF outcome = "raises" THEN "error"
                    ELSE set_state_call(IF outcome = "True" THEN "completed" ELSE "error",
                                        raising)
    /\ tl_last' = Operated("test_embedding_configuration",
                           IF outcome = "True" THEN "True" ELSE "False")
    /\ UNCHANGED <<tl_config_cache, tl_current_llm_config>>
    /\ UNCHANGED <<ctl_event_handlers, ctl_error_handlers, ctl_view, ctl_last>>
    /\ UNCHANGED nonLLMTest

\* a mutation of set_current_llm_config_call: an unknown name clears the
\* current configuration
set_current_llm_config_callClearing(cache, current, config_name) ==
    get_llm_config_by_name(cache, config_name)

\* set_current_llm_config(config_name): the current configuration it leaves
set_current_llm_config_call(cache, current, config_name) ==
    LET config == get_llm_config_by_name(cache, config_name)
    IN  IF ConfigTruthy(config) THEN config ELSE current

\* set_current_llm_config(config_name)
set_current_llm_config(config_name) ==
    /\ tl_current_llm_config' =
          set_current_llm_config_call(tl_config_cache, tl_current_llm_config, config_name)
    /\ tl_last' = NoTest
    /\ UNCHANGED tl_config_cache
    /\ UNCHANGED ctl_vars
    /\ UNCHANGED nonLLMTest

\* _validate_llm_config(config) on a configuration of this shape: the four
\* required keys are there (interface_format among the other keys), and
\* base_url and model_name are not empty
CachedConfigValid(config) ==
    /\ config.is_dict
    /\ config.other_keys
    /\ \A i \in 1..Len(TestFields) : config[TestFields[i]] # Absent
    /\ config.base_url \notin {"", "<None>"}
    /\ config.model_name \notin {"", "<None>"}

\* the configurations given to add_llm_config and update_llm_config
CrudConfigChoices ==
    {GoodLLMConfig, [GoodLLMConfig EXCEPT !.api_key = ""],
     [GoodLLMConfig EXCEPT !.model_name = ""]}

\* llm_configs[name] = config
DataWith(cache, name, config) ==
    ConfigData(IF name \in Range(cache.names) THEN cache.names
               ELSE Append(cache.names, name),
               [n \in Range(cache.names) \cup {name} |->
                   IF n = name THEN config ELSE cache.configs[n]],
               cache.last_llm_config_name)

\* del llm_configs[name]
DataWithout(cache, name) ==
    ConfigData(FilterSeq(cache.names, Range(cache.names) \ {name}),
               [n \in Range(cache.names) \ {name} |-> cache.configs[n]],
               cache.last_llm_config_name)

\* add_llm_config(name, config)
controller_add_llm_config(name, config) ==
    /\ IF ~CachedConfigValid(config)
       THEN /\ ctl_state' = "error"
            /\ tl_last' = Operated("add_llm_config", "False")
            /\ UNCHANGED tl_config_cache
       ELSE IF name \in Range(tl_config_cache.names)
       THEN /\ tl_last' = Operated("add_llm_config", "False")
            /\ UNCHANGED <<tl_config_cache, ctl_state>>
       ELSE /\ tl_config_cache' = DataWith(tl_config_cache, name, config)
            /\ ctl_state' = controller_emit_event_call(ctl_state, "llm_config_added", {}).state
            /\ tl_last' = Operated("add_llm_config", "True")
    /\ UNCHANGED tl_current_llm_config
    /\ UNCHANGED <<ctl_event_handlers, ctl_error_handlers, ctl_view, ctl_last>>
    /\ UNCHANGED nonLLMTest

\* remove_llm_config(name): the current configuration is not looked at
controller_remove_llm_config(name) ==
    /\ IF name \in Range(tl_config_cache.names)
       THEN /\ tl_config_cache' = DataWithout(tl_config_cache, name)
            /\ ctl_state' = controller_emit_event_call(ctl_state, "llm_config_removed", {}).state
            /\ tl_last' = Operated("remove_llm_config", "True")
       ELSE /\ tl_last' = Operated("remove_llm_config", "False")
            /\ UNCHANGED <<tl_config_cache, ctl_state>>
    /\ UNCHANGED tl_current_llm_config
    /\ UNCHANGED <<ctl_event_handlers, ctl_error_handlers, ctl_view, ctl_last>>
    /\ UNCHANGED nonLLMTest

\* update_llm_config(config_name, config_data): the entry of the cache is
\* replaced, the current configuration is not looked at
controller_update_llm_config(name, config) ==
    /\ IF ~CachedConfigValid(config)
       THEN /\ tl_last' = Operated("update_llm_config", "False")
            /\ UNCHANGED <<tl_config_cache, ctl_state>>
       ELSE /\ tl_config_cache' = DataWith(tl_config_cache, name, config)
            /\ ctl_state' = controller_emit_event_call(ctl_state, "llm_config_updated", {}).state
            /\ tl_last' = Operated("update_llm_config", "True")
    /\ UNCHANGED tl_current_llm_config
    /\ UNCHANGED <<ctl_event_handlers, ctl_error_handlers, ctl_view, ctl_last>>
    /\ UNCHANGED nonLLMTest

\* ConfigController.__init__
InitLLMTest ==
    /\ tl_config_cache = EmptyConfigData
    /\ tl_current_llm_config = NoLLMConfig
    /\ tl_last = NoTest

(***************************************************************************)
(* PluginEventSystem used by several threads (plugins/events.py)           *)
(*                                                                         *)
(* emit_event_object step by step: the lock is taken and the event is      *)
(* recorded and counted, the handlers are called one after the other, the  *)
(* lock is released.  A handler returns, raises, or first emits an event   *)
(* itself, on the thread that called it.  emit_event_async runs emit_event *)
(* on a thread of its own.                                                 *)
(***************************************************************************)

\* the threads that emit
Threads == {"t1", "t2"}

\* the lock is free
FreeLock == [owner |-> "none", count |-> 0]

\* a mutation of MayAcquire: the lock excludes nobody
MayAcquireAlways(lock, thread) == TRUE

\* RLock.acquire() returns at once for the owner and when the lock is free
MayAcquire(lock, thread) == lock.owner \in {"none", thread}

\* RLock.acquire()
Acquired(lock, thread) == [owner |-> thread, count |-> lock.count + 1]

\* RLock.release()
Released(lock) ==
    IF lock.count <= 1 THEN FreeLock ELSE [lock EXCEPT !.count = @ - 1]

\* no emit_event_object call has returned
NoEmissionDone ==
    [id |-> 0, name |-> "none", handlers |-> <<>>, results |-> <<>>, raised |-> {},
     called |-> <<>>]

\* a mutation of AfterRaise: the exception of a handler ends the dispatch
AfterRaiseAbort(frame) ==
    [frame EXCEPT !.raised = @ \cup {frame.handlers[frame.i].id},
                  !.i = Len(frame.handlers) + 1,
                  !.in_handler = FALSE]

\* except Exception: results.append(None), and the loop goes on
AfterRaise(frame) ==
    [frame EXCEPT !.raised = @ \cup {frame.handlers[frame.i].id},
                  !.results = Append(@, "None"),
                  !.i = @ + 1,
                  !.in_handler = FALSE]

\* results.append(result), and the loop goes on
AfterReturn(frame) ==
    [frame EXCEPT !.results = Append(@, "result"), !.i = @ + 1, !.in_handler = FALSE]

\* the innermost emit_event_object call of the thread
Top(stack) == stack[Len(stack)]

\* the stack with its innermost call replaced
WithTop(stack, frame) == [stack EXCEPT ![Len(stack)] = frame]

\* emit_event_object(event) up to its first handler: by a thread that is
\* not emitting, or by the handler the thread is running
emit_begin(thread, event_name) ==
    /\ ev_count < MaxThreadEmits
    /\ Len(et_stack[thread]) < MaxNesting
    /\ et_stack[thread] # <<>> => Top(et_stack[thread]).in_handler
    /\ MayAcquire(et_lock, thread)
    /\ et_lock' = Acquired(et_lock, thread)
    /\ ev_history' = HistoryAppend(ev_history, [name |-> event_name, id |-> ev_count + 1])
    /\ ev_stats' = CountEvent(ev_stats, event_name)
    /\ ev_count' = ev_count + 1
    /\ et_stack' = [et_stack EXCEPT ![thread] =
                       Append(@, [id |-> ev_count + 1, name |-> event_name,
                                  handlers |-> ev_handlers[event_name], i |-> 1,
                                  results |-> <<>>, raised |-> {}, called |-> <<>>,
                                  in_handler |-> FALSE])]
    /\ UNCHANGED <<et_trace, et_last>>
    /\ UNCHANGED <<ev_handlers, ev_regs, ev_invoked, ev_results>>
    /\ UNCHANGED nonEventThreads

\* handler(event): the next handler of the innermost emission is called
handler_call(thread) ==
    /\ et_stack[thread] # <<>>
    /\ LET frame == Top(et_stack[thread])
       IN  /\ ~frame.in_handler
           /\ frame.i <= Len(frame.handlers)
           /\ et_stack' = [et_stack EXCEPT ![thread] =
                  WithTop(@, [frame EXCEPT !.in_handler = TRUE,
                                           !.called = Append(@, frame.handlers[frame.i].id)])]
           /\ et_trace' = Append(et_trace, [emission |-> frame.id, thread |-> thread,
                                            handler |-> frame.handlers[frame.i].id])
    /\ UNCHANGED <<et_lock, et_last>>
    /\ UNCHANGED ev_vars
    /\ UNCHANGED nonEventThreads

\* the handler returns or raises
handler_end(thread, raises) ==
    /\ et_stack[thread] # <<>>
    /\ LET frame == Top(et_stack[thread])
       IN  /\ frame.in_handler
           /\ et_stack' = [et_stack EXCEPT ![thread] =
                  WithTop(@, IF raises THEN AfterRaise(frame) ELSE AfterReturn(frame))]
           /\ ev_stats' = IF raises THEN ev_stats
                          ELSE [ev_stats EXCEPT !.total_handlers_called = @ + 1]
    /\ UNCHANGED <<et_lock, et_trace, et_last>>
    /\ UNCHANGED <<ev_handlers, ev_history, ev_count, ev_regs, ev_invoked, ev_results>>
    /\ UNCHANGED nonEventThreads

\* the loop is over: the lock is released and the results are returned
emit_end(thread) ==
    /\ et_stack[thread] # <<>>
    /\ LET frame == Top(et_stack[thread])
       IN  /\ ~frame.in_handler
           /\ frame.i > Len(frame.handlers)
           /\ et_last' = [id |-> frame.id, name |-> frame.name,
                          handlers |-> frame.handlers, results |-> frame.results,
                          raised |-> frame.raised, called |-> frame.called]
           /\ ev_invoked' = frame.handlers
           /\ ev_results' = frame.results
    /\ et_stack' = [et_stack EXCEPT ![thread] = SubSeq(@, 1, Len(@) - 1)]
    /\ et_lock' = Released(et_lock)
    /\ UNCHANGED et_trace
    /\ UNCHANGED <<ev_handlers, ev_history, ev_count, ev_regs, ev_stats>>
    /\ UNCHANGED nonEventThreads

\* register_handler by a thread, while no emission is in progress
thread_register_handler(event_name, plugin_name, priority) ==
    /\ et_lock = FreeLock
    /\ register_handler(event_name, plugin_name, priority)

\* PluginEventSystem.__init__, and no thread emitting
InitEventThreads ==
    /\ et_lock = FreeLock
    /\ et_stack = [t \in Threads |-> <<>>]
    /\ et_trace = <<>>
    /\ et_last = NoEmissionDone

(***************************************************************************)
(* PluginCrashHandler used by several threads (plugins/crash_handler.py)   *)
(*                                                                         *)
(* handle_crash statement by statement, for LOW crashes of one plugin      *)
(* under the default policy.  The handler has no lock: a thread may be     *)
(* suspended between any two statements, and between the read and the      *)
(* write of a statement that reads a dict entry and stores it back.        *)
(***************************************************************************)

\* the plugin whose crashes the threads report
CrashingPlugin == "pA"

\* the locals of a handle_crash call that has read nothing yet
NoLocals == [has_key |-> FALSE, count |-> 0, attempts |-> 0]

\* handle_crash is called: the crash record is created
hc_begin(thread) ==
    /\ ct_pc[thread] = "idle"
    /\ ct_calls.begun < MaxThreadCrashes
    /\ ct_pc' = [ct_pc EXCEPT ![thread] = "check_key"]
    /\ ct_local' = [ct_local EXCEPT ![thread] = NoLocals]
    /\ ct_calls' = [ct_calls EXCEPT !.begun = @ + 1]
    /\ UNCHANGED ct_keys
    /\ UNCHANGED ch_vars
    /\ UNCHANGED nonCrashThreads

\* _record_crash: if plugin_name not in self._crash_records
hc_check_key(thread) ==
    /\ ct_pc[thread] = "check_key"
    /\ ct_local' = [ct_local EXCEPT ![thread].has_key = CrashingPlugin \in ct_keys]
    /\ ct_pc' = [ct_pc EXCEPT ![thread] =
                    IF CrashingPlugin \in ct_keys THEN "append" ELSE "create_list"]
    /\ UNCHANGED <<ct_keys, ct_calls>>
    /\ UNCHANGED ch_vars
    /\ UNCHANGED nonCrashThreads

\* _record_crash: self._crash_records[plugin_name] = []
hc_create_list(thread) ==
    /\ ct_pc[thread] = "create_list"
    /\ ct_keys' = ct_keys \cup {CrashingPlugin}
    /\ crash_records' = [crash_records EXCEPT ![CrashingPlugin] = <<>>]
    /\ ct_pc' = [ct_pc EXCEPT ![thread] = "append"]
    /\ UNCHANGED <<ct_local, ct_calls>>
    /\ UNCHANGED <<crash_counts, disabled_plugins, restart_attempts, recovery_callbacks,
                   plugin_policies, ch_calls, ch_last>>
    /\ UNCHANGED nonCrashThreads

\* _record_crash: self._crash_records[plugin_name].append(crash_record)
hc_append(thread) ==
    /\ ct_pc[thread] = "append"
    /\ crash_records' = [crash_records EXCEPT ![CrashingPlugin] = Append(@, 0)]
    /\ ct_pc' = [ct_pc EXCEPT ![thread] = "read_count"]
    /\ UNCHANGED <<ct_keys, ct_local, ct_calls>>
    /\ UNCHANGED <<crash_counts, disabled_plugins, restart_attempts, recovery_callbacks,
                   plugin_policies, ch_calls, ch_last>>
    /\ UNCHANGED nonCrashThreads

\* _record_crash: self._crash_counts.get(plugin_name, 0)
hc_read_count(thread) ==
    /\ ct_pc[thread] = "read_count"
    /\ ct_local' = [ct_local EXCEPT ![thread].count = crash_counts[CrashingPlugin]]
    /\ ct_pc' = [ct_pc EXCEPT ![thread] = "write_count"]
    /\ UNCHANGED <<ct_keys, ct_calls>>
    /\ UNCHANGED ch_vars
    /\ UNCHANGED nonCrashThreads

\* _record_crash: self._crash_counts[plugin_name] = ... + 1
hc_write_count(thread) ==
    /\ ct_pc[thread] = "write_count"
    /\ crash_counts' = [crash_counts EXCEPT ![CrashingPlugin] = ct_local[thread].count + 1]
    /\ ct_pc' = [ct_pc EXCEPT ![thread] = "decide"]
    /\ UNCHANGED <<ct_keys, ct_local, ct_calls>>
    /\ UNCHANGED <<crash_records, disabled_plugins, restart_attempts, recovery_callbacks,
                   plugin_policies, ch_calls, ch_last>>
    /\ UNCHANGED nonCrashThreads

\* handle_crash from get_plugin_policy to the read of the restart counter in
\* _attempt_recovery: the plugin is disabled, or recovery is refused, or
\* the counter is read
hc_decide(thread) ==
    /\ ct_pc[thread] = "decide"
    /\ LET policy == get_plugin_policy(plugin_policies, CrashingPlugin)
           sp == policy.severity_policies["low"]
       IN  IF should_disable_plugin(CrashData, CrashingPlugin, policy)
           THEN /\ disabled_plugins' = disable_plugin(CrashData, CrashingPlugin).disabled
                /\ ct_pc' = [ct_pc EXCEPT ![thread] = "idle"]
                /\ ct_calls' = [ct_calls EXCEPT !.returned = @ + 1]
                /\ UNCHANGED ct_local
           ELSE IF ~sp.auto_restart \/ restart_attempts[CrashingPlugin] >= sp.max_restarts
           THEN /\ ct_pc' = [ct_pc EXCEPT ![thread] = "idle"]
                /\ ct_calls' = [ct_calls EXCEPT !.returned = @ + 1]
                /\ UNCHANGED <<disabled_plugins, ct_local>>
           ELSE /\ ct_local' = [ct_local EXCEPT
                                   ![thread].attempts = restart_attempts[CrashingPlugin]]
                /\ ct_pc' = [ct_pc EXCEPT ![thread] = "write_attempts"]
                /\ UNCHANGED <<disabled_plugins, ct_calls>>
    /\ UNCHANGED ct_keys
    /\ UNCHANGED <<crash_records, crash_counts, restart_attempts, recovery_callbacks,
                   plugin_policies, ch_calls, ch_last>>
    /\ UNCHANGED nonCrashThreads

\* _attempt_recovery: self._restart_attempts[plugin_name] = current_attempts + 1,
\* then the delay, the recovery callback if there is one, and the return
hc_recover(thread) ==
    /\ ct_pc[thread] = "write_attempts"
    /\ restart_attempts' = [restart_attempts EXCEPT
                               ![CrashingPlugin] = ct_local[thread].attempts + 1]
    /\ ct_pc' = [ct_pc EXCEPT ![thread] = "idle"]
    /\ ct_calls' = [ct_calls EXCEPT !.returned = @ + 1]
    /\ UNCHANGED <<ct_keys, ct_local>>
    /\ UNCHANGED <<crash_records, crash_counts, disabled_plugins, recovery_callbacks,
                   plugin_policies, ch_calls, ch_last>>
    /\ UNCHANGED nonCrashThreads

\* PluginCrashHandler.__init__, and no thread in handle_crash
InitCrashThreads ==
    /\ ct_keys = {}
    /\ ct_pc = [t \in Threads |-> "idle"]
    /\ ct_local = [t \in Threads |-> NoLocals]
    /\ ct_calls = [begun |-> 0, returned |-> 0]

(***************************************************************************)
(* NovelController (ui/controllers/novel_controller.py)                    *)
(*                                                                         *)
(* A project directory is a number 1..MaxPaths. What the file system holds *)
(* at a path is an input of each operation: the directory may be missing,  *)
(* its project_config.json may be missing, unparsable, a falsy JSON value, *)
(* a JSON object, or another JSON value.                                   *)
(***************************************************************************)

\* the project directories
ProjectPaths == 1..MaxPaths

\* the limit of _add_to_project_history
project_history_limit == 10

\* what load_project finds at project_path
ConfigContents ==
    {"path_missing", "config_missing", "unparsable", "falsy", "object",
     "not_an_object"}

\* the project_data given to create_new_project: complete, a required field
\* missing or falsy, a chapter or word number that int() rejects with
\* ValueError, or one that it rejects with TypeError
ProjectDataChoices == {"valid", "missing_field", "not_a_number", "not_numeric_type"}

\* self._current_project is None
NoProject == [path |-> 0, name |-> "None"]

\* _load_project_config(config_path): the name of the project of the
\* document returned, "None" where it returns None
load_project_config(content) ==
    CASE content \in {"config_missing", "unparsable"} -> "None"
      [] content = "falsy" -> "falsy"
      [] content = "object" -> "project"
      [] OTHER -> "not_an_object"

\* a mutation of add_to_project_history: the entries of the path are kept
add_to_project_historyKeepsDuplicates(history, project_path, project_name) ==
    LET inserted == <<[path |-> project_path, name |-> project_name]>> \o history
    IN  IF Len(inserted) > project_history_limit
        THEN SubSeq(inserted, 1, project_history_limit)
        ELSE inserted

\* _add_to_project_history(project_path, project_name)
add_to_project_history(history, project_path, project_name) ==
    LET kept == FilterSeq(history, {item \in Range(history) : item.path # project_path})
        inserted == <<[path |-> project_path, name |-> project_name]>> \o kept
    IN  IF Len(inserted) > project_history_limit
        THEN SubSeq(inserted, 1, project_history_limit)
        ELSE inserted

\* no operation of the novel controller yet
NoNovelOperation ==
    [op |-> "none", path |-> 0, content |-> "none", returned |-> "none",
     steps |-> <<>>, current_before |-> NoProject, history_before |-> <<>>]

\* the record of an operation that begins
NovelOperation(op, project_path, content) ==
    [NoNovelOperation EXCEPT !.op = op, !.path = project_path, !.content = content,
                             !.current_before = nv_current_project,
                             !.history_before = nv_project_history]

\* the operation opens a directory the controller may open: the directories
\* are first opened in the order of their numbers
MayOpen(project_path) ==
    \/ project_path = nv_opened + 1
    \/ project_path <= nv_opened /\ nv_reopens < MaxReopens

\* the counters after project_path was opened
Opened(project_path) ==
    /\ nv_opened' = IF project_path > nv_opened THEN project_path ELSE nv_opened
    /\ nv_reopens' = IF project_path > nv_opened THEN nv_reopens ELSE nv_reopens + 1

\* save_current_project() on the active project: the state it sets
save_current_project_call(current, save_ok) ==
    IF current = NoProject THEN [state |-> ctl_state, returned |-> TRUE, steps |-> <<>>]
    ELSE IF current.name = "not_an_object" \/ ~save_ok
    THEN [state |-> "error", returned |-> FALSE,
          steps |-> <<[step |-> "save", path |-> current.path]>>]
    ELSE [state |-> set_state_call("completed", {}), returned |-> TRUE,
          steps |-> <<[step |-> "save", path |-> current.path]>>]

\* a mutation of load_project_steps: the active project is not saved
load_project_stepsWithoutSave(current, project_path, save_ok) ==
    <<[step |-> "activate", path |-> project_path]>>

\* the steps of load_project once the document is loaded: the active
\* project is saved, then the project at project_path is made the active one
load_project_steps(current, project_path, save_ok) ==
    save_current_project_call(current, save_ok).steps
        \o <<[step |-> "activate", path |-> project_path]>>

\* load_project(project_path)
load_project(project_path, content, save_ok) ==
    /\ MayOpen(project_path)
    /\ LET begun == NovelOperation("load_project", project_path, content)
           project_name == load_project_config(content)
       IN  IF content = "path_missing" \/ project_name \in {"None", "falsy"}
           THEN /\ ctl_state' = set_state_call("error", {})
                /\ nv_last' = [begun EXCEPT !.returned = "False"]
                /\ UNCHANGED <<nv_current_project, nv_project_history, nv_opened,
                               nv_reopens>>
           ELSE IF project_name = "not_an_object"
           THEN \* project_config.get raises once the project is the active one
                /\ ctl_state' = "error"
                /\ nv_current_project' = [path |-> project_path, name |-> project_name]
                /\ nv_last' = [begun EXCEPT !.returned = "False",
                                   !.steps = load_project_steps(nv_current_project,
                                                                project_path, save_ok)]
                /\ UNCHANGED <<nv_project_history, nv_opened, nv_reopens>>
           ELSE /\ ctl_state' = set_state_call("completed", {})
                /\ nv_current_project' = [path |-> project_path, name |-> project_name]
                /\ nv_project_history' =
                      add_to_project_history(nv_project_history, project_path,
                                             project_name)
                /\ Opened(project_path)
                /\ nv_last' = [begun EXCEPT !.returned = "True",
                                   !.steps = load_project_steps(nv_current_project,
                                                                project_path, save_ok)
                                       \o <<[step |-> "history", path |-> project_path]>>]
    /\ UNCHANGED <<ctl_event_handlers, ctl_error_handlers, ctl_view, ctl_last>>
    /\ UNCHANGED nonNovel

\* create_new_project(project_data), project_data["filepath"] being
\* project_path: structure_ok and save_ok tell whether the directories and
\* project_config.json can be written
create_new_project(project_path, project_data, structure_ok, save_ok) ==
    /\ MayOpen(project_path)
    /\ LET begun == NovelOperation("create_new_project", project_path, project_data)
       IN  IF project_data # "valid" \/ ~structure_ok \/ ~save_ok
           THEN /\ ctl_state' = IF project_data = "not_numeric_type" THEN "error"
                                ELSE set_state_call("error", {})
                /\ nv_last' = [begun EXCEPT !.returned = "False"]
                /\ UNCHANGED <<nv_current_project, nv_project_history, nv_opened,
                               nv_reopens>>
           ELSE /\ ctl_state' = set_state_call("completed", {})
                /\ nv_current_project' = [path |-> project_path, name |-> "project"]
                /\ nv_project_history' =
                      add_to_project_history(nv_project_history, project_path, "project")
                /\ Opened(project_path)
                /\ nv_last' = [begun EXCEPT !.returned = "True",
                                   !.steps = <<[step |-> "activate", path |-> project_path],
                                               [step |-> "history", path |-> project_path]>>]
    /\ UNCHANGED <<ctl_event_handlers, ctl_error_handlers, ctl_view, ctl_last>>
    /\ UNCHANGED nonNovel

\* close_current_project()
close_current_project(save_ok) ==
    /\ nv_current_project # NoProject
    /\ ctl_state' = set_state_call("idle", {})
    /\ nv_current_project' = NoProject
    /\ nv_last' = [NovelOperation("close_current_project", nv_current_project.path, "none")
                      EXCEPT !.returned = "True",
                             !.steps = save_current_project_call(nv_current_project,
                                                                 save_ok).steps]
    /\ UNCHANGED <<nv_project_history, nv_opened, nv_reopens>>
    /\ UNCHANGED <<ctl_event_handlers, ctl_error_handlers, ctl_view, ctl_last>>
    /\ UNCHANGED nonNovel

\* NovelController.__init__
InitNovel ==
    /\ nv_current_project = NoProject
    /\ nv_project_history = <<>>
    /\ nv_opened = 0
    /\ nv_reopens = 0
    /\ nv_last = NoNovelOperation

(***************************************************************************)
(* load_plugin called from several threads (plugins/manager.py,            *)
(* ui/plugin_manager_ui.py)                                                *)
(*                                                                         *)
(* _load_plugin of the Plugin Manager UI starts a thread for each click,   *)
(* and the thread calls plugin_manager.load_plugin. The manager has no     *)
(* lock: a thread may be suspended between any two statements of           *)
(* load_plugin. The plugin is registered, compatible and not disabled, and *)
(* its code loads without failure.                                         *)
(***************************************************************************)

\* the plugin the threads load
LoadedPlugin == "pA"

\* common_events of register_listener
common_events ==
    {"app.startup", "app.shutdown", "plugin.loaded", "plugin.unloaded", "config.change"}

\* a mutation of SeenLoaded: the test and the store are one atomic step, so
\* a thread also sees a load that another thread has begun
SeenLoadedOrLoading(loaded, pc, plugin_name) ==
    \/ plugin_name \in loaded
    \/ \E t \in Threads : pc[t] \in {"instantiate", "initialize", "store", "listen"}

\* load_plugin: plugin_name in self._loaded_plugins
SeenLoaded(loaded, pc, plugin_name) == plugin_name \in loaded

\* _load_plugin starts a thread, which calls load_plugin: the plugin is not
\* disabled
lp_begin(thread) ==
    /\ lt_pc[thread] = "idle"
    /\ lt_counts.begun < MaxThreadLoads
    /\ lt_pc' = [lt_pc EXCEPT ![thread] = "check_loaded"]
    /\ lt_counts' = [lt_counts EXCEPT !.begun = @ + 1]
    /\ lt_returned' = [lt_returned EXCEPT ![thread] = "none"]
    /\ UNCHANGED <<lt_loaded, lt_handlers>>
    /\ UNCHANGED nonLoadThreads

\* load_plugin: if plugin_name in self._loaded_plugins: return True; then
\* the registry lookup, the version check and the import of the module
lp_check_loaded(thread) ==
    /\ lt_pc[thread] = "check_loaded"
    /\ IF SeenLoaded(lt_loaded, lt_pc, LoadedPlugin)
       THEN /\ lt_pc' = [lt_pc EXCEPT ![thread] = "idle"]
            /\ lt_returned' = [lt_returned EXCEPT ![thread] = "True"]
       ELSE /\ lt_pc' = [lt_pc EXCEPT ![thread] = "instantiate"]
            /\ UNCHANGED lt_returned
    /\ UNCHANGED <<lt_loaded, lt_handlers, lt_counts>>
    /\ UNCHANGED nonLoadThreads

\* load_plugin: plugin_instance = plugin_class()
lp_instantiate(thread) ==
    /\ lt_pc[thread] = "instantiate"
    /\ lt_counts' = [lt_counts EXCEPT !.instantiated = @ + 1]
    /\ lt_pc' = [lt_pc EXCEPT ![thread] = "initialize"]
    /\ UNCHANGED <<lt_loaded, lt_handlers, lt_returned>>
    /\ UNCHANGED nonLoadThreads

\* load_plugin: plugin_instance.initialize(context)
lp_initialize(thread) ==
    /\ lt_pc[thread] = "initialize"
    /\ lt_counts' = [lt_counts EXCEPT !.initialized = @ + 1]
    /\ lt_pc' = [lt_pc EXCEPT ![thread] = "store"]
    /\ UNCHANGED <<lt_loaded, lt_handlers, lt_returned>>
    /\ UNCHANGED nonLoadThreads

\* load_plugin: self._loaded_plugins[plugin_name] = plugin_instance
lp_store(thread) ==
    /\ lt_pc[thread] = "store"
    /\ lt_loaded' = lt_loaded \cup {LoadedPlugin}
    /\ lt_pc' = [lt_pc EXCEPT ![thread] = "listen"]
    /\ UNCHANGED <<lt_handlers, lt_counts, lt_returned>>
    /\ UNCHANGED nonLoadThreads

\* load_plugin: event_system.register_listener(plugin_name, on_event), the
\* registration of the recovery callback, and return True
lp_register_listener(thread) ==
    /\ lt_pc[thread] = "listen"
    /\ lt_handlers' = [e \in common_events |-> lt_handlers[e] + 1]
    /\ lt_counts' = [lt_counts EXCEPT !.listeners = @ + 1]
    /\ lt_pc' = [lt_pc EXCEPT ![thread] = "idle"]
    /\ lt_returned' = [lt_returned EXCEPT ![thread] = "True"]
    /\ UNCHANGED lt_loaded
    /\ UNCHANGED nonLoadThreads

\* PluginManager.__init__, before a thread of the UI loads the plugin
InitLoadThreads ==
    /\ lt_pc = [t \in Threads |-> "idle"]
    /\ lt_loaded = {}
    /\ lt_handlers = [e \in common_events |-> 0]
    /\ lt_counts = [begun |-> 0, instantiated |-> 0, initialized |-> 0, listeners |-> 0]
    /\ lt_returned = [t \in Threads |-> "none"]

(***************************************************************************)
(* Handlers that change the handler list during a dispatch                 *)
(* (plugins/events.py)                                                     *)
(*                                                                         *)
(* emit_event_object holds the RLock while it iterates over                *)
(* self._handlers.get(event.name, []): the list object itself, not a copy. *)
(* A handler runs on the emitting thread, so its own register_handler and  *)
(* unregister_handler calls re-enter the lock. register_handler appends to *)
(* the list and sorts it in place; unregister_handler binds a new list to  *)
(* the name. One event name is followed.                                   *)
(***************************************************************************)

\* what a handler does when it is invoked: nothing, or a registration of
\* a handler of its plugin for the same event with EventPriority LOW or
\* HIGH, or the removal of the handlers of its plugin or of the other one
HandlerEffects ==
    {"none", "register_low", "register_high", "unregister_own", "unregister_other"}

OtherPlugin(plugin_name) == IF plugin_name = "pA" THEN "pB" ELSE "pA"

\* no dispatch is running
NoIteration == [running |-> FALSE, list |-> <<>>, index |-> 0, live |-> FALSE]

\* no emission yet
NoDispatch == [start |-> <<>>, invoked |-> <<>>, effects |-> <<>>, done |-> FALSE]

\* a mutation of IteratedList: the loop iterates over a copy of the list
IteratedListCopied(handlers) == [list |-> handlers, live |-> FALSE]

\* handlers = self._handlers.get(event.name, []): the list bound to the name,
\* which later registrations change (live), or a new empty list
IteratedList(handlers) == [list |-> handlers, live |-> handlers # <<>>]

\* register_handler(event_name, handler, plugin_name, priority), outside a
\* dispatch
dp_register_handler(plugin_name, priority) ==
    /\ ~dp_iter.running
    /\ dp_regs < MaxDispatchRegs
    /\ dp_handlers' = SortByPriority(Append(dp_handlers,
                          [id |-> dp_regs + 1, plugin_name |-> plugin_name,
                           priority |-> priority]))
    /\ dp_regs' = dp_regs + 1
    /\ UNCHANGED <<dp_iter, dp_count, dp_last>>
    /\ UNCHANGED nonDispatch

\* emit_event_object(event) up to the for loop
dp_emit_begin ==
    /\ ~dp_iter.running
    /\ dp_count < MaxDispatches
    /\ dp_count' = dp_count + 1
    /\ LET it == IteratedList(dp_handlers)
       IN  dp_iter' = [running |-> TRUE, list |-> it.list, index |-> 1, live |-> it.live]
    /\ dp_last' = [NoDispatch EXCEPT !.start = dp_handlers]
    /\ UNCHANGED <<dp_handlers, dp_regs>>
    /\ UNCHANGED nonDispatch

\* one pass of the for loop: the handler at the index is invoked, and does
\* effect before it returns
dp_invoke(effect) ==
    /\ dp_iter.running
    /\ dp_iter.index <= Len(dp_iter.list)
    /\ LET h == dp_iter.list[dp_iter.index]
           registered(priority) ==
               SortByPriority(Append(dp_handlers,
                   [id |-> dp_regs + 1, plugin_name |-> h.plugin_name,
                    priority |-> priority]))
           removed(plugin_name) == HandlersWithout(dp_handlers, plugin_name, 0)
           next == [dp_iter EXCEPT !.index = @ + 1]
       IN  /\ dp_last' = [dp_last EXCEPT !.invoked = Append(@, h.id),
                                         !.effects = Append(@, effect)]
           /\ CASE effect \in {"register_low", "register_high"} ->
                     /\ dp_regs < MaxDispatchRegs
                     /\ dp_handlers' = registered(IF effect = "register_low" THEN 1 ELSE 3)
                     /\ dp_regs' = dp_regs + 1
                     \* the name is absent when its list is empty: the
                     \* registration then binds a new list to it
                     /\ dp_iter' = IF dp_iter.live /\ dp_handlers # <<>>
                                   THEN [next EXCEPT !.list = dp_handlers']
                                   ELSE [next EXCEPT !.live = FALSE]
                [] effect \in {"unregister_own", "unregister_other"} ->
                     /\ dp_handlers' = removed(IF effect = "unregister_own"
                                               THEN h.plugin_name
                                               ELSE OtherPlugin(h.plugin_name))
                     /\ dp_iter' = IF dp_handlers = <<>> THEN next
                                   ELSE [next EXCEPT !.live = FALSE]
                     /\ UNCHANGED dp_regs
                [] OTHER ->
                     /\ dp_iter' = next
                     /\ UNCHANGED <<dp_handlers, dp_regs>>
    /\ UNCHANGED dp_count
    /\ UNCHANGED nonDispatch

\* the for loop ends, emit_event_object returns the results
dp_emit_end ==
    /\ dp_iter.running
    /\ dp_iter.index > Len(dp_iter.list)
    /\ dp_iter' = NoIteration
    /\ dp_last' = [dp_last EXCEPT !.done = TRUE]
    /\ UNCHANGED <<dp_handlers, dp_regs, dp_count>>
    /\ UNCHANGED nonDispatch

\* PluginEventSystem.__init__
InitDispatch ==
    /\ dp_handlers = <<>>
    /\ dp_iter = NoIteration
    /\ dp_regs = 0
    /\ dp_count = 0
    /\ dp_last = NoDispatch

\* PluginEventSystem.__init__
InitEvents ==
    /\ ev_handlers = [e \in EventNames |-> <<>>]
    /\ ev_history = <<>>
    /\ ev_count = 0
    /\ ev_regs = 0
    /\ ev_invoked = <<>>
    /\ ev_results = <<>>
    /\ ev_stats = NoStats

Init ==
    /\ InitEvents
    /\ InitCrash
    /\ InitPerf
    /\ InitRegistry
    /\ InitController
    /\ InitVersion
    /\ InitConfig
    /\ InitValidate
    /\ InitGeneration
    /\ InitLanguage
    /\ InitManager
    /\ InitInitialize
    /\ InitDispatch
    /\ InitLoadThreads
    /\ InitNovel
    /\ InitCrashThreads
    /\ InitEventThreads
    /\ InitLLMTest

\* registration, removal and emission on one event system
NextEvents ==
    \/ \E e \in EventNames, p \in Plugins, pr \in EventPriority :
           register_handler(e, p, pr)
    \/ \E e \in EventNames, p \in Plugins :
           \E id \in {0} \cup HandlerIds(ev_handlers[e]) : unregister_handler(e, p, id)
    \/ \E p \in Plugins : unregister_plugin_handlers(p)
    \/ \E e \in EventNames : emit_event(e, MaxEmit)
    \/ \E e \in EventNames, allowed \in SUBSET Plugins :
           emit_event_with_filter(e, allowed, MaxEmit)
    \/ \E e1 \in EventNames, e2 \in EventNames : emit_batch_events(e1, e2, MaxEmit)

SpecEvents == Init /\ [][NextEvents]_vars

\* emissions only, on a system without handlers, far beyond the history cap
NextHistory ==
    \/ emit_event("app.startup", MaxHistEmit)
    \/ emit_event_object("app.startup", MaxHistEmit)
    \/ \E allowed \in {{}, Plugins} : emit_event_with_filter("app.startup", allowed, MaxHistEmit)
    \/ emit_batch_events("app.startup", "app.startup", MaxHistEmit)

SpecHistory == Init /\ [][NextHistory]_vars

\* crashes under the default policy, recovery callbacks, re-enabling and the clock
NextCrash ==
    \/ \E q \in Plugins, x \in ExceptionTypes, o \in CallbackOutcomes :
           handle_crash(q, x, "None", o)
    \/ \E q \in Plugins, sev \in CrashSeverity, o \in CallbackOutcomes :
           handle_crash(q, "RuntimeError", sev, o)
    \/ \E q \in Plugins : register_recovery_callback(q)
    \/ \E q \in Plugins : enable_plugin(q)
    \/ CrashTick

SpecCrash == Init /\ [][NextCrash]_vars

\* the calls and the limit overrides of one monitored plugin, and the clock
NextPerf ==
    \/ start_monitoring("pA")
    \/ \E l \in LimitOverrides : set_plugin_limits("pA", l)
    \/ PerfTick

SpecPerf == Init /\ [][NextPerf]_vars

\* registrations, unregistrations and load order resolutions
NextRegistry ==
    \/ \E n \in RegistryNames : \E deps \in SUBSET RegistryNames : register_plugin(n, deps)
    \/ \E n \in RegistryNames : unregister_plugin(n)
    \/ \E names \in NameLists : \E o \in IterationOrders : resolve_load_order(names, o)

SpecRegistry == Init /\ [][NextRegistry]_vars

\* the operations of one controller
NextController ==
    \/ \E t \in ControllerEvents : \E h \in Listeners : add_event_listener(t, h)
    \/ \E t \in ControllerEvents : \E h \in Listeners : remove_event_listener(t, h)
    \/ add_error_handler
    \/ \E v \in Views : set_view(v)
    \/ \E t \in ControllerEvents : \E raising \in SUBSET (1..MaxListeners) :
            controller_emit_event(t, raising)
    \/ \E st \in ControllerState : \E raising \in SUBSET (1..MaxListeners) :
            set_state(st, raising)
    \/ handle_error

SpecController == Init /\ [][NextController]_vars

\* rule registrations and compatibility checks
NextVersion ==
    \/ \E v \in VersionStrings : version_manager_init(v)
    \/ \E q \in Plugins : \E rule \in RuleChoices : register_compatibility_rule(q, rule)
    \/ \E v \in VersionStrings :
       \E required \in {<<>>} \cup {<<x>> : x \in VersionStrings} :
            check_compatibility("pA", v, required)

SpecVersion == Init /\ [][NextVersion]_vars

\* updates, saves and fresh managers on one configuration document
NextConfig ==
    \/ \E file \in {[exists |-> FALSE, document |-> [llm_configs |-> <<>>]],
                     [exists |-> TRUE, document |-> LegacyDocument]} :
            configuration_manager_init(file)
    \/ \E n \in ConfigNames : \E c \in LLMConfigChoices : update_llm_config(n, c)
    \/ \E success \in BOOLEAN : save_configuration(success)
    \/ fresh_manager

SpecConfig == Init /\ [][NextConfig]_vars

\* one call of _validate_llm_config
NextValidate == validate_llm_config

\* every config dict of LLMConfigInputs, before it is validated
InitValidateInputs ==
    /\ InitEvents
    /\ InitCrash
    /\ InitPerf
    /\ InitRegistry
    /\ InitController
    /\ InitVersion
    /\ InitConfig
    /\ InitGeneration
    /\ InitLanguage
    /\ InitManager
    /\ InitInitialize
    /\ InitDispatch
    /\ InitLoadThreads
    /\ InitNovel
    /\ InitCrashThreads
    /\ InitEventThreads
    /\ InitLLMTest
    /\ vc_config \in LLMConfigInputs
    /\ vc_result = "none"

SpecValidate == InitValidateInputs /\ [][NextValidate]_vars

\* a model with one LLM configured and nothing chosen
PlainModel == [attached |-> TRUE, llm_configs |-> <<"DeepSeek">>, choose_configs |-> <<>>]

\* the generate methods called with every params dict, with and without a model
NextGenParams ==
    \/ \E m \in {PlainModel, NoModel} : set_model(m)
    \/ \E ph \in Phases : \E params \in ParamChoices : generate_start(ph, params, {})
    \/ \E succeeds \in BOOLEAN : execute_generation(succeeds)
    \/ generate_finish({})

SpecGenParams == Init /\ [][NextGenParams]_vars

\* the generate methods called with valid params on every model
NextGenConfig ==
    \/ \E m \in ModelChoices \cup {NoModel} : set_model(m)
    \/ \E ph \in Phases : generate_start(ph, FullParams, {})
    \/ \E succeeds \in BOOLEAN : execute_generation(succeeds)
    \/ generate_finish({})

SpecGenConfig == Init /\ [][NextGenConfig]_vars

\* runs with valid params and a configured LLM, their callbacks, and cancellation
NextGenRuns ==
    \/ set_model(PlainModel)
    \/ \E t \in Phases : add_generation_callback(t)
    \/ \E ph \in Phases : generate_start(ph, FullParams, {})
    \/ \E succeeds \in BOOLEAN : execute_generation(succeeds)
    \/ generate_finish({})
    \/ cancel_current_task({})

SpecGenRuns == Init /\ [][NextGenRuns]_vars

\* the same runs, with state_changed listeners that may raise
NextGenOutcomes ==
    \/ set_model(PlainModel)
    \/ \E h \in Listeners : add_event_listener("state_changed", h)
    \/ \E t \in Phases : add_generation_callback(t)
    \/ \E ph \in Phases : \E raising \in SUBSET (1..MaxListeners) :
          generate_start(ph, FullParams, raising)
    \/ \E succeeds \in BOOLEAN : execute_generation(succeeds)
    \/ \E raising \in SUBSET (1..MaxListeners) : generate_finish(raising)
    \/ \E raising \in SUBSET (1..MaxListeners) : cancel_current_task(raising)

SpecGenOutcomes == Init /\ [][NextGenOutcomes]_vars

\* the event loop resumes a coroutine whose awaited future is done, and the
\* default executor runs the work submitted to it
SpecGenRunsLive ==
    /\ SpecGenRuns
    /\ WF_vars(\E succeeds \in BOOLEAN : execute_generation(succeeds))
    /\ WF_vars(generate_finish({}))

\* the language manager: the files reloaded, the language set, keys translated
NextLanguage ==
    \/ \E l \in Locales : \E catalog \in CatalogChoices : reload_language(l, catalog)
    \/ \E l \in Locales : set_language(l)
    \/ \E key \in TranslationKeys : translate(key)

SpecLanguage == Init /\ [][NextLanguage]_vars

\* the plugins the manager is driven with
ManagedPlugins == {"pA"}

\* the plugin manager with its crash handler and version manager
NextManager ==
    \/ \E v \in AppVersionChoices : version_manager_init(v)
    \/ \E q \in ManagedPlugins : \E metadata \in MetadataChoices :
          discover_plugins(q, metadata)
    \/ \E q \in ManagedPlugins : \E behaviour \in LoadBehaviours : load_plugin(q, behaviour)
    \/ \E q \in ManagedPlugins : \E cleanup \in CleanupBehaviours : unload_plugin(q, cleanup)
    \/ \E q \in ManagedPlugins : \E cleanup \in CleanupBehaviours :
          \E behaviour \in LoadBehaviours : reload_plugin(q, cleanup, behaviour)
    \/ \E q \in ManagedPlugins : \E e \in ExceptionTypes :
          \E cleanup \in CleanupBehaviours : \E behaviour \in LoadBehaviours :
             manager_handle_crash(q, e, cleanup, behaviour)
    \/ \E q \in ManagedPlugins : enable_plugin(q)
    \/ \E q \in ManagedPlugins : \E service_name \in ServiceNames :
          \E outcome \in {"ok"} \cup ExceptionTypes : \E cleanup \in CleanupBehaviours :
             \E behaviour \in LoadBehaviours :
                call_plugin_service(q, service_name, outcome, cleanup, behaviour)

SpecManager == Init /\ [][NextManager]_vars

\* the controllers initialized, with and without a model, a view and listeners
NextInitialize ==
    \/ \E m \in {PlainModel, NoModel} : set_model(m)
    \/ \E v \in Views : set_view(v)
    \/ \E t \in ControllerEvents : \E h \in Listeners : add_event_listener(t, h)
    \/ \E outcome \in LoadOutcomes : config_initialize(outcome, {})
    \/ \E k \in {"NovelController", "GenerationController"} : controller_initialize(k, {})

SpecInitialize == Init /\ [][NextInitialize]_vars

\* a configuration controller whose configuration is loaded, whose current
\* configuration is chosen and whose LLM configurations are tested
NextLLMTest ==
    \/ \E view \in Views : set_view(view)
    \/ \E d \in ConfigDataChoices : controller_load_configuration("ok", d, {})
    \/ \E o \in ControllerLoadOutcomes \ {"ok"} :
          controller_load_configuration(o, EmptyConfigData, {})
    \/ \E n \in TestConfigNames : set_current_llm_config(n)
    \/ \E n \in TestConfigNames \cup {""} : \E o \in TestOutcomes :
          test_llm_configuration(n, o, {})

SpecLLMTest == Init /\ [][NextLLMTest]_vars

\* two threads emitting on one event system, the handlers emitting as well
NextEventThreads ==
    \/ \E e \in EventNames, pr \in {1, 3} : thread_register_handler(e, "pA", pr)
    \/ \E t \in Threads, e \in EventNames : emit_begin(t, e)
    \/ \E t \in Threads : handler_call(t)
    \/ \E t \in Threads, raises \in BOOLEAN : handler_end(t, raises)
    \/ \E t \in Threads : emit_end(t)

SpecEventThreads == Init /\ [][NextEventThreads]_vars

\* two threads reporting crashes of one plugin
NextCrashThreads ==
    \/ \E t \in Threads : hc_begin(t)
    \/ \E t \in Threads : hc_check_key(t)
    \/ \E t \in Threads : hc_create_list(t)
    \/ \E t \in Threads : hc_append(t)
    \/ \E t \in Threads : hc_read_count(t)
    \/ \E t \in Threads : hc_write_count(t)
    \/ \E t \in Threads : hc_decide(t)
    \/ \E t \in Threads : hc_recover(t)

SpecCrashThreads == Init /\ [][NextCrashThreads]_vars

\* crashes of one plugin under the default and the lenient policy, with
\* resets of its counters
NextCrashPolicies ==
    \/ \E sev \in CrashSeverity, o \in {"ok", "raise"} :
           handle_crash("pA", "RuntimeError", sev, o)
    \/ register_recovery_callback("pA")
    \/ \E p \in {"default", "lenient"} : set_plugin_policy("pA", p)
    \/ enable_plugin("pA")
    \/ clear_crash_history("pA")
    \/ CrashTick

SpecCrashPolicies == Init /\ [][NextCrashPolicies]_vars

\* the projects of one novel controller created, loaded and closed
NextNovel ==
    \/ \E p \in ProjectPaths : \E content \in ConfigContents : \E save_ok \in BOOLEAN :
          load_project(p, content, save_ok)
    \/ \E p \in ProjectPaths : \E data \in ProjectDataChoices :
          \E structure_ok \in BOOLEAN : \E save_ok \in BOOLEAN :
             create_new_project(p, data, structure_ok, save_ok)
    \/ \E save_ok \in BOOLEAN : close_current_project(save_ok)

SpecNovel == Init /\ [][NextNovel]_vars

\* crashes of one plugin whose recovery callback reloads it, under the
\* default policy and under overrides
NextCrashNesting ==
    \/ \E sev \in CrashSeverity, o \in {"ok", "reload_fails"} :
           handle_crash("pA", "RuntimeError", sev, o)
    \/ register_recovery_callback("pA")
    \/ \E p \in {"default", "lenient", "restarting"} : set_plugin_policy("pA", p)
    \/ enable_plugin("pA")
    \/ CrashTick

SpecCrashNesting == Init /\ [][NextCrashNesting]_vars

\* plugins that declare dependencies, discovered, loaded and unloaded in any order
NextManagerDeps ==
    \/ version_manager_init(V(<<1, 0>>))
    \/ \E q \in Plugins : \E metadata \in DependentMetadataChoices :
          discover_plugins(q, metadata)
    \/ \E q \in Plugins : \E behaviour \in {"ok", "init_false", "init_raises"} :
          load_plugin(q, behaviour)
    \/ \E q \in Plugins : \E cleanup \in CleanupBehaviours : unload_plugin(q, cleanup)
    \/ \E q \in Plugins : enable_plugin(q)

SpecManagerDeps == Init /\ [][NextManagerDeps]_vars

\* the threads of the Plugin Manager UI load one plugin
NextLoadThreads ==
    \/ \E t \in Threads : lp_begin(t)
    \/ \E t \in Threads : lp_check_loaded(t)
    \/ \E t \in Threads : lp_instantiate(t)
    \/ \E t \in Threads : lp_initialize(t)
    \/ \E t \in Threads : lp_store(t)
    \/ \E t \in Threads : lp_register_listener(t)

SpecLoadThreads == Init /\ [][NextLoadThreads]_vars

\* the plugin manager, its crash handler and the events it emits
NextManagerEvents ==
    \/ version_manager_init(V(<<1, 0>>))
    \/ \E q \in Plugins : discover_plugins(q, [version |-> V(<<1, 0>>),
                                 min_app_version |-> <<>>, dependencies |-> {}])
    \/ \E q \in Plugins : \E behaviour \in {"ok", "listen_raises"} : load_plugin(q, behaviour)
    \/ \E q \in Plugins : \E cleanup \in CleanupBehaviours : unload_plugin(q, cleanup)
    \/ \E q \in Plugins : \E e \in {"MemoryError", "ValueError"} :
          \E behaviour \in {"ok", "init_raises"} :
             manager_handle_crash(q, e, "ok", behaviour)
    \/ \E q \in Plugins : \E outcome \in {"ok", "MemoryError", "ValueError"} :
          call_plugin_service(q, "generate", outcome, "ok", "ok")
    \/ \E e \in EventNames : manager_emit_event(e)

SpecManagerEvents == Init /\ [][NextManagerEvents]_vars

\* handlers that register and unregister handlers while they are dispatched
NextDispatch ==
    \/ \E q \in Plugins : \E priority \in {2, 3} : dp_register_handler(q, priority)
    \/ dp_emit_begin
    \/ \E effect \in HandlerEffects : dp_invoke(effect)
    \/ dp_emit_end

SpecDispatch == Init /\ [][NextDispatch]_vars

\* the configurations the model of the controller holds
StoredConfigData ==
    {ConfigData(<<"A">>, [n \in {"A"} |-> GoodLLMConfig], Absent),
     ConfigData(<<"A", "B">>,
                [n \in {"A", "B"} |-> IF n = "A" THEN GoodLLMConfig
                                      ELSE [GoodLLMConfig EXCEPT !.api_key = ""]], "B"),
     EmptyConfigData}

\* the operations of a configuration controller on its configurations
NextConfigOps ==
    \/ \E o \in LoadOutcomes : \E d \in StoredConfigData :
          controller_config_initialize(o, d, {})
    \/ \E o \in ControllerLoadOutcomes : \E d \in StoredConfigData :
          controller_load_configuration(o, d, {})
    \/ \E o \in ControllerSaveOutcomes : \E d \in StoredConfigData :
          \E embeddings \in BOOLEAN : controller_save_configuration(o, d, embeddings, {})
    \/ \E n \in TestConfigNames \cup {""} : \E o \in TestOutcomes :
          test_llm_configuration(n, o, {})
    \/ \E o \in EmbeddingTestOutcomes : test_embedding_configuration(o, {})
    \/ \E n \in TestConfigNames : set_current_llm_config(n)
    \/ \E n \in TestConfigNames : \E c \in CrudConfigChoices :
          controller_add_llm_config(n, c)
    \/ \E n \in TestConfigNames : controller_remove_llm_config(n)
    \/ \E n \in TestConfigNames : \E c \in CrudConfigChoices :
          controller_update_llm_config(n, c)

SpecConfigOps == Init /\ [][NextConfigOps]_vars

\* C1: whatever the order of the register_handler calls, an emission invokes
\* the handlers in non-increasing priority order (critical, high, normal, low).
C1_PriorityOrder ==
    \A i \in 1..Len(ev_invoked) : \A j \in 1..Len(ev_invoked) :
        i < j => ev_invoked[i].priority >= ev_invoked[j].priority

\* C1 witness: H1(low) and H2(critical) were registered in this order and an
\* emission invoked H2 before H1.
C1_Witness ==
    /\ Len(ev_invoked) = 2
    /\ <<ev_invoked[1].id, ev_invoked[2].id>> = <<2, 1>>
    /\ <<ev_invoked[1].priority, ev_invoked[2].priority>> = <<4, 1>>

\* C2: the history holds at most 1000 events, and they are exactly the most
\* recent min(n, 1000) of the n emitted events, in emission order; after 1500
\* emissions these are the emissions 501 to 1500.
C2_HistoryIsLatest ==
    /\ Len(ev_history) = Min(ev_count, 1000)
    /\ \A i \in 1..Len(ev_history) :
           ev_history[i].id = ev_count - Len(ev_history) + i
    /\ ev_count = 1500 =>
           /\ Len(ev_history) = 1000
           /\ ev_history[1].id = 501
           /\ ev_history[1000].id = 1500

\* C2 witness: 1500 emissions were made and the oldest 500 are gone.
C2_Witness ==
    /\ ev_count = 1500
    /\ Len(ev_history) = 1000
    /\ ev_history[1].id = 501

\* C3: under the default policy the 5th handle_crash invocation for a plugin
\* (and every later one) returns False and leaves the plugin disabled, whatever
\* the spacing in time and the severities of the calls.
C3_FifthCrashDisables ==
    ch_last.default_policy =>
        \A i \in 1..Len(ch_last.log) :
            ch_last.first + i - 1 >= 5 =>
                /\ ch_last.log[i].returned = FALSE
                /\ ch_last.log[i].disabled

\* C3 witness: the 5th crash of pA came more than an hour after the 4th, each
\* of the four earlier calls attempted a recovery, and the 5th call returned
\* False with pA disabled.
C3_Witness ==
    /\ ch_last.plugin_name = "pA"
    /\ ch_last.first = 5
    /\ Len(ch_last.log) = 1
    /\ ch_last.log[1].returned = FALSE
    /\ ch_last.log[1].disabled
    /\ crash_counts["pA"] = 5
    /\ restart_attempts["pA"] = 4
    /\ Len(get_recent_crashes(CrashData, "pA")) = 1
    /\ is_plugin_disabled("pA")

\* the crashes of a plugin recorded less than one hour ago
RecentCount(plugin_name) ==
    Cardinality({i \in 1..Len(crash_records[plugin_name]) :
                    crash_records[plugin_name][i] < TicksPerHour})

\* C4: under the default policy a handle_crash that is the 3rd for the plugin
\* within one hour returns False and leaves the plugin disabled, also when the
\* lifetime total is below 5; crashes one hour old or older do not count: with
\* fewer than 3 crashes in the hour and fewer than 5 in total an enabled
\* plugin stays enabled.
C4_ThirdCrashInHourDisables ==
    [][\A q \in Plugins :
          (ch_calls'[q] # ch_calls[q] /\ ch_last'.default_policy) =>
              LET n == Len(ch_last'.log)
              IN  /\ RecentCount(q) + n >= 3 =>
                         /\ q \in disabled_plugins'
                         /\ ch_last'.log[n].returned = FALSE
                  /\ (/\ q \notin disabled_plugins
                      /\ RecentCount(q) + n < 3
                      /\ crash_counts[q] + n < 5) => q \notin disabled_plugins']_vars

\* C4 witness: pA crashed 4 times, the first crash is at least an hour old and
\* the last three lie within one hour; the 4th call returned False and pA is
\* disabled with a lifetime total of 4.
C4_Witness ==
    /\ ch_last.plugin_name = "pA"
    /\ ch_last.first = 4
    /\ Len(ch_last.log) = 1
    /\ ch_last.log[1].returned = FALSE
    /\ ch_last.log[1].disabled
    /\ crash_counts["pA"] = 4
    /\ crash_records["pA"][1] = TicksPerHour
    /\ RecentCount("pA") = 3
    /\ is_plugin_disabled("pA")

\* C5: with rate limiting enabled and a positive limit L, of L + 1
\* start_monitoring calls of one plugin within one window the first L return a
\* monitoring context and the (L + 1)-th raises the rate-limit error.
C5_RateLimit ==
    \A q \in Plugins :
        LET limits == get_plugin_limits(q)
            L == limits.max_calls_per_minute
            n == pm_run[q].n
        IN  (limits.enabled /\ L > 0 /\ pm_run[q].clean /\ pm_last[q] # "none") =>
                /\ (1 <= n /\ n <= L) => pm_last[q] = "context"
                /\ n = L + 1 => pm_last[q] = "RuntimeError"

\* the dependency relation restricted to the requested names has a cycle: some
\* requested name reaches itself along one or more dependencies between requested names
RestrictedCycle(dependencies, plugin_names) ==
    LET S == Range(plugin_names)
        Edge(a, b) == b \in get_dependencies(dependencies, a)
    IN  \E k \in 1..Cardinality(S) : \E path \in [1..(k + 1) -> S] :
            /\ path[1] = path[k + 1]
            /\ \A i \in 1..k : Edge(path[i], path[i + 1])

\* C6: resolve_load_order(names) raises the cyclic-dependency error exactly when
\* the dependency relation restricted to the requested names has a cycle
\* (a self-dependency included).
C6_CycleDetected ==
    rl_last.calls > 0 =>
        (rl_last.raised <=> RestrictedCycle(reg_dependencies, rl_last.names))

\* a three-plugin request over a two-plugin cycle raises
C6_Witness ==
    /\ rl_last.calls > 0
    /\ rl_last.raised
    /\ rl_last.names = <<"C", "A", "B">>
    /\ DOMAIN reg_dependencies = RegistryNames
    /\ reg_dependencies["A"] = {"B"}
    /\ reg_dependencies["B"] = {"A"}
    /\ reg_dependencies["C"] = {}

\* C7: emit_event invokes every listener of the event type, in order, also after
\* a listener raised; every raising listener goes through _handle_error, which
\* leaves the controller in state error; with exactly one raising listener the
\* state is set to error exactly once.
C7_EveryListenerInvoked ==
    ctl_last.op = "emit_event" =>
        /\ ctl_last.invoked = ListenersOf(ctl_event_handlers, ctl_last.event_type)
        /\ ctl_last.errors = ctl_last.raised
        /\ ctl_last.raised > 0 => ctl_state = "error"
        /\ ctl_last.raised = 1 => ctl_last.errors = 1

\* two listeners, the first raises, the second is still invoked
C7_Witness ==
    /\ ctl_last.op = "emit_event"
    /\ ctl_last.event_type = "config_changed"
    /\ ctl_last.invoked = <<"h1", "h2">>
    /\ ctl_last.raised = 1
    /\ ctl_last.errors = 1
    /\ ctl_last.handled = 1
    /\ ctl_last.shown = 1
    /\ ctl_state = "error"

\* the verdict the default policy gives by major and minor numbers alone
VerdictByMajorMinor(app_ver, major, minor) ==
    CASE major < app_ver.major -> "deprecated"
      [] major > app_ver.major -> "incompatible"
      [] major = app_ver.major /\ minor < app_ver.minor -> "backward"
      [] major = app_ver.major /\ minor > app_ver.minor -> "incompatible"
      [] major = app_ver.major /\ minor = app_ver.minor -> "compatible"

\* C8: for a plugin without custom rules whose version parses, and no required
\* application version above the running one, check_compatibility gives the
\* verdict fixed by the major and minor numbers; the patch number of the plugin
\* version does not change it.
C8_MajorMinorDecide ==
    LET plugin_ver == from_string(vm_last.plugin_version)
        required_ver == from_string(vm_last.required[1])
    IN  (/\ vm_last.called
         /\ vm_last.plugin_name \notin DOMAIN compatibility_rules
         /\ plugin_ver.ok
         /\ vm_last.required # <<>> =>
                required_ver.ok /\ ~VersionLt(app_version, required_ver.info))
        => /\ vm_last.level = VerdictByMajorMinor(app_version, plugin_ver.info.major,
                                                  plugin_ver.info.minor)
           /\ \A patch \in 0..MaxSegment :
                 check_compatibility_call(app_version, compatibility_rules,
                     vm_last.plugin_name,
                     [valid |-> TRUE,
                      release |-> <<plugin_ver.info.major, plugin_ver.info.minor, patch>>],
                     vm_last.required) = vm_last.level

\* application 1.1.0, plugin 1.1.1, required 1.1: compatible
C8_Witness ==
    /\ vm_last.called
    /\ app_version = [major |-> 1, minor |-> 1, patch |-> 0]
    /\ vm_last.plugin_version = [valid |-> TRUE, release |-> <<1, 1, 1>>]
    /\ vm_last.required = <<[valid |-> TRUE, release |-> <<1, 1>>]>>
    /\ "pA" \notin DOMAIN compatibility_rules
    /\ "pB" \in DOMAIN compatibility_rules
    /\ vm_last.level = "compatible"

\* C9: after update_llm_config(name, cfg), a successful save_configuration and
\* the construction of a fresh manager on the same document, the fresh manager
\* holds under name an LLMConfig equal to cfg in every field.
C9_RoundTrip ==
    cm_last.stage = "loaded" =>
        /\ cm_last.name \in DOMAIN fresh_configs.llm_configs
        /\ \A f \in LLMConfigFields :
              fresh_configs.llm_configs[cm_last.name][f] = cm_last.config[f]

\* the value parses to a number between 0 and 2
NumberInRange(v) == float(v).exc = "none" /\ float(v).kind = "finite"
                    /\ 0 <= float(v).n /\ float(v).n <= 20

\* the value parses to an integer greater than 0
PositiveInteger(v) == int(v).exc = "none" /\ int(v).n > 0

\* C10: _validate_llm_config accepts a config exactly when api_key, base_url,
\* model_name and interface_format are present, the last three are not empty,
\* temperature if present parses to a number in [0, 2], and max_tokens and
\* timeout if present parse to integers greater than 0.
C10_AcceptsExactly ==
    vc_result # "none" =>
        (vc_result = "True" <=>
            /\ \A f \in {"api_key", "base_url", "model_name", "interface_format"} :
                    Present(vc_config, f)
            /\ \A f \in {"base_url", "model_name", "interface_format"} :
                    vc_config[f].kind \notin {"None", "empty"}
            /\ Present(vc_config, "temperature") => NumberInRange(vc_config.temperature)
            /\ Present(vc_config, "max_tokens") => PositiveInteger(vc_config.max_tokens)
            /\ Present(vc_config, "timeout") => PositiveInteger(vc_config.timeout))

\* an empty api_key, temperature 2, max_tokens "1" and timeout 1 are accepted
C10_Witness ==
    /\ vc_result = "True"
    /\ vc_config.api_key = Val("empty", 0)
    /\ vc_config.base_url = Val("text", 0)
    /\ vc_config.temperature = Val("int", 2)
    /\ vc_config.max_tokens = Val("str_int", 1)
    /\ vc_config.timeout = Val("int", 1)

\* the fields the architecture phase is documented to require
ArchitectureFields == {"topic", "genre", "num_chapters", "word_number", "filepath"}

\* C11: generate_novel_architecture with params lacking, or holding an empty
\* value for, any of topic, genre, num_chapters, word_number, filepath returns
\* False in state error; the LLM configuration lookup and the generation
\* function are not invoked and no started event is emitted
C11_InvalidArchitectureParams ==
    (/\ gen_last.phase = "architecture"
     /\ \E f \in ArchitectureFields : gen_last.params[f] # "set")
    => /\ gen_last.returned = "False"
       /\ ctl_state = "error"
       /\ gen_current_task = "None"
       /\ gen_last.lookups = 0
       /\ gen_last.invoked = 0
       /\ gen_last.started = 0

\* an architecture run whose params lack word_number has returned
C11_Witness ==
    /\ gen_last.phase = "architecture"
    /\ gen_last.params = [FullParams EXCEPT !.word_number = "absent"]
    /\ gen_last.returned = "False"
    /\ ctl_state = "error"

\* C12: validation of the blueprint phase requires only filepath: a call of
\* generate_chapter_blueprint whose params hold a non-empty filepath passes
\* validation, with or without a chapter number
C12_BlueprintRequiresOnlyFilepath ==
    (/\ gen_last.phase = "blueprint"
     /\ gen_last.params.filepath = "set")
    => gen_last.validated

\* C12, amended: validation of the blueprint phase requires chapter_num and
\* filepath, as that of the draft and finalization phases does: a call passes
\* validation exactly if its params hold a non-empty value for both
C12_ChapterPhasesRequireBoth ==
    gen_last.phase \in {"blueprint", "draft", "finalization"}
    => (gen_last.validated
        <=> (gen_last.params.chapter_num = "set" /\ gen_last.params.filepath = "set"))

\* generate_chapter_blueprint with only filepath set has failed validation
C12_Witness ==
    /\ gen_last.phase = "blueprint"
    /\ gen_last.params = [f \in ParamFields |-> IF f = "filepath" THEN "set" ELSE "absent"]
    /\ ~gen_last.validated
    /\ gen_last.returned = "False"
    /\ gen_last.lookups = 0

\* the string key resolves to in a locale's catalog, as it is and with its
\* doubled braces unescaped: {} when it resolves to none
StringOf(locale, key) ==
    LET r == lookup(Dict(lm_translations[locale]), split(key), 1)
    IN  IF r.found /\ r.value.kind = "str"
        THEN {r.value.text, format(r.value.text).value}
        ELSE {}

\* C13: translate(key) returns the string key resolves to in the current
\* locale; otherwise, where the current locale is not the default one and key
\* resolves to a string in the default locale, that string; and the key
\* itself where key resolves in neither catalog
C13_TranslateFallback ==
    lm_last.key # ""
    => LET current == StringOf(lm_current_language, lm_last.key)
           fallback == StringOf(default_language, lm_last.key)
       IN  /\ lm_last.raised = "None"
           /\ IF current # {} THEN lm_last.value \in current
              ELSE IF lm_current_language # default_language /\ fallback # {}
              THEN lm_last.value \in fallback
              ELSE lm_last.value = lm_last.key

\* C14: call_plugin_service does not invoke a service of a plugin that the
\* crash handler reports disabled or that is not loaded: it raises the error
\* of a disabled or unloaded plugin; for a loaded, enabled plugin without the
\* requested service it raises the error of an unknown service; in each
\* case no service code has run
C14_NoServiceWhileDisabledOrUnloaded ==
    mgr_last.op = "call_plugin_service"
    => /\ (mgr_last.was_disabled \/ ~mgr_last.was_loaded)
            => /\ mgr_last.error \in {"disabled", "not_loaded"}
               /\ mgr_last.service_runs = 0
               /\ mgr_last.loads = <<>>
       /\ (/\ ~mgr_last.was_disabled
           /\ mgr_last.was_loaded
           /\ mgr_last.service_name \notin get_services[mgr_last.plugin_name])
            => /\ mgr_last.error = "no_service"
               /\ mgr_last.service_runs = 0

\* a service was requested of a plugin that is loaded and disabled, and refused
C14_Witness ==
    /\ mgr_last.op = "call_plugin_service"
    /\ mgr_last.was_disabled
    /\ mgr_last.was_loaded
    /\ mgr_last.service_name \in get_services[mgr_last.plugin_name]
    /\ mgr_last.error = "disabled"
    /\ mgr_last.service_runs = 0

\* C15: whatever the operations before it, and whether called directly, by
\* reload_plugin or by a recovery callback, load_plugin does not instantiate
\* or initialize a plugin that the crash handler reports disabled or whose
\* version verdict is incompatible, and it returns False unless the plugin is
\* enabled and already loaded; on a loaded, enabled plugin it returns True
\* without initializing the plugin again
C15_LoadRefusesDisabledAndIncompatible ==
    \A i \in 1..Len(mgr_last.loads) :
        LET e == mgr_last.loads[i]
        IN  /\ (e.was_disabled \/ e.verdict = "incompatible")
                => /\ ~e.instantiated
                   /\ ~e.initialized
                   /\ (e.was_disabled \/ ~e.was_loaded) => ~e.returned
            /\ (e.was_loaded /\ ~e.was_disabled)
                => /\ e.returned
                   /\ ~e.instantiated
                   /\ ~e.initialized

\* load_plugin has refused a disabled plugin that is loaded, after one of the
\* crashes reported has reloaded the plugin
C15_Witness ==
    /\ mgr_last.op = "load_plugin"
    /\ Len(mgr_last.loads) = 1
    /\ mgr_last.loads[1].was_disabled
    /\ mgr_last.loads[1].was_loaded
    /\ ~mgr_last.loads[1].returned
    /\ restart_attempts[mgr_last.plugin_name] > 0

\* load_plugin has refused a plugin whose version verdict is incompatible
C15_WitnessIncompatible ==
    /\ mgr_last.op = "load_plugin"
    /\ Len(mgr_last.loads) = 1
    /\ ~mgr_last.loads[1].was_disabled
    /\ mgr_last.loads[1].verdict = "incompatible"
    /\ ~mgr_last.loads[1].returned

\* C16: an initialize() call of a ConfigController, a NovelController or a
\* GenerationController that has a model and a view and returns True leaves
\* the controller in state idle
C16_InitializedIsIdle ==
    (/\ init_last.controller \in Controllers
     /\ init_last.with_model
     /\ init_last.with_view
     /\ init_last.returned = "True")
    => ctl_state = "idle"

\* C17: set_state(s) delivers one state_changed event to every listener of
\* state_changed, and when it returns the controller's state is s, whatever
\* the listeners do
C17_SetStateLeavesRequestedState ==
    [][\A st \in ControllerState : \A raising \in SUBSET (1..MaxListeners) :
          set_state(st, raising)
          => /\ ctl_last'.invoked = ListenersOf(ctl_event_handlers, "state_changed")
             /\ ctl_state' = st]_vars

\* C17, amended: set_state(s) delivers one state_changed event to every
\* listener of state_changed, also after a listener raised; when it returns
\* the controller's state is s if no listener raised, and error if one did
C17_SetStateUnlessListenerRaises ==
    [][\A st \in ControllerState : \A raising \in SUBSET (1..MaxListeners) :
          set_state(st, raising)
          => /\ ctl_last'.invoked = ListenersOf(ctl_event_handlers, "state_changed")
             /\ ctl_last'.raised = Cardinality(raising)
             /\ ctl_state' = IF raising = {} THEN st ELSE "error"]_vars

\* set_state has returned after the first of two state_changed listeners
\* raised: both were invoked and the state is error
C17_Witness ==
    /\ ctl_last.op = "set_state"
    /\ ctl_last.invoked = <<"h1", "h2">>
    /\ ctl_last.raised = 1
    /\ ctl_state = "error"

\* the callbacks registered for the phase of the latest run
PhaseCallbacks ==
    IF gen_last.phase \in DOMAIN gen_callbacks THEN gen_callbacks[gen_last.phase] ELSE 0

\* C18: cancel_current_task, called while a run is dispatched to the worker,
\* clears the task marker and sets state idle and leaves the dispatched run
\* as it is; the worker's generation call still completes and the handling
\* of the result still runs, which moves the controller to completed or error
\* and invokes the callbacks of the phase
C18_CancelDoesNotStopRun ==
    /\ [][(cancel_current_task({}) /\ gen_run.stage # "none")
            => /\ gen_current_task' = "None"
               /\ ctl_state' = "idle"
               /\ gen_run' = gen_run]_vars
    /\ (gen_last.cancelled /\ ~gen_last.handled)
          ~> /\ gen_last.cancelled
             /\ gen_last.handled
             /\ gen_last.invoked = 1
             /\ ctl_state \in {"completed", "error"}
             /\ Len(gen_last.delivered) = PhaseCallbacks

\* a cancelled run has completed: its callback was invoked with success and
\* the controller is in state completed
C18_Witness ==
    /\ gen_last.cancelled
    /\ gen_last.handled
    /\ gen_last.delivered = <<TRUE>>
    /\ gen_current_task = "None"
    /\ ctl_state = "completed"

\* C19: a generation run that passed validation and the LLM lookup ends, once
\* its result is handled, with the controller in state idle if the generation
\* function succeeded and in state error if it failed or raised, and with
\* each callback of the phase invoked once, with True or with False
C19_RunEndsIdleOrError ==
    (gen_last.handled /\ ~gen_last.listener_raised)
    => /\ ctl_state = (IF gen_last.returned = "True" THEN "idle" ELSE "error")
       /\ Len(gen_last.delivered) = gen_last.registered
       /\ \A i \in 1..Len(gen_last.delivered) :
              gen_last.delivered[i] = (gen_last.returned = "True")

\* C19, amended: such a run ends with the controller in state completed if
\* the generation function succeeded and in state error if it failed or
\* raised (and in state error if a listener of the last state change
\* raised), with each callback of the phase invoked once, with True or False
C19_RunEndsCompletedOrError ==
    gen_last.handled
    => /\ ctl_state = (IF gen_last.listener_raised THEN "error"
                       ELSE IF gen_last.returned = "True" THEN "completed"
                       ELSE "error")
       /\ gen_last.invoked = 1
       /\ gen_current_task = "None"
       /\ Len(gen_last.delivered) = gen_last.registered
       /\ \A i \in 1..Len(gen_last.delivered) :
              gen_last.delivered[i] = (gen_last.returned = "True")

\* a run with two callbacks of its phase has succeeded
C19_Witness ==
    /\ gen_last.handled
    /\ gen_last.returned = "True"
    /\ gen_last.delivered = <<TRUE, TRUE>>
    /\ ~gen_last.listener_raised
    /\ ctl_state = "completed"

\* C20: the LLM lookup of a generation phase fails only if no LLM
\* configuration exists at all: with at least one configuration configured,
\* every phase resolves one, the one named by its choose_configs key or a
\* fallback, and the run does not end at the lookup
C20_ResolvesWheneverConfigured ==
    (/\ gen_last.phase \in Phases
     /\ gen_last.lookups = 1
     /\ gen_last.configured > 0)
    => /\ gen_last.llm_config # "None"
       /\ gen_last.started = 1

\* the value of the key is missing, empty or only whitespace
BlankValue(value) == value \in {Absent, "", "  "}

\* C21: test_llm_configuration never invokes the connectivity-test routine
\* when the resolved configuration is missing or has an empty or
\* whitespace-only api_key, base_url or model_name; in each of those cases
\* it returns False and leaves the controller in state error
C21_TestFailsFast ==
    (/\ tl_last.op = "test_llm_configuration"
     /\ \/ ~tl_last.llm_config.is_dict
        \/ \E i \in 1..Len(TestFields) : BlankValue(tl_last.llm_config[TestFields[i]]))
    => /\ tl_last.invoked = 0
       /\ tl_last.returned = "False"
       /\ ctl_state = "error"

\* a configuration named in the call, with a key and a URL and a
\* whitespace-only model name, was tested and refused with the message
\* of the model name
C21_Witness ==
    /\ tl_last.op = "test_llm_configuration"
    /\ tl_last.config_name = "A"
    /\ tl_last.llm_config.api_key = "v"
    /\ tl_last.llm_config.base_url = " v "
    /\ tl_last.llm_config.model_name = "  "
    /\ tl_last.shown = "model_name_missing"
    /\ tl_last.invoked = 0
    /\ ctl_state = "error"

\* C22: during an emission a handler that raises contributes None at its
\* position and every later handler of the event is still invoked; the
\* emission is appended to the history and counted in total_events and
\* events_by_name whatever the handlers do
C22_RaisingHandlerYieldsNone ==
    /\ et_last.id > 0 =>
          /\ et_last.called = [i \in 1..Len(et_last.handlers) |-> et_last.handlers[i].id]
          /\ Len(et_last.results) = Len(et_last.handlers)
          /\ \A i \in 1..Len(et_last.handlers) :
                 (et_last.results[i] = "None") <=> (et_last.handlers[i].id \in et_last.raised)
          /\ \E i \in 1..Len(ev_history) :
                 ev_history[i] = [name |-> et_last.name, id |-> et_last.id]
    /\ ev_stats.total_events = ev_count
    /\ \A e \in EventNames :
          (IF e \in DOMAIN ev_stats.events_by_name THEN ev_stats.events_by_name[e] ELSE 0)
             = Cardinality({i \in 1..Len(ev_history) : ev_history[i].name = e})

\* an emission with two handlers has returned, the first of which raised
C22_Witness ==
    /\ et_last.id > 0
    /\ Len(et_last.handlers) = 2
    /\ et_last.raised = {et_last.handlers[1].id}
    /\ et_last.results = <<"None", "result">>
    /\ ev_stats.total_events = 1

\* C23: no two emissions on one event system interleave their handler
\* invocations: between the first and the last handler invocation of one
\* emission no handler of another emission runs, for emissions issued from
\* different threads and for an emission issued by a handler during a dispatch
C23_NoInterleaving ==
    \A i \in 1..Len(et_trace) : \A j \in 1..Len(et_trace) : \A k \in 1..Len(et_trace) :
        (i < j /\ j < k /\ et_trace[i].emission = et_trace[k].emission)
            => et_trace[j].emission = et_trace[i].emission

\* C23, amended: emissions issued from different threads do not interleave
\* their handler invocations; a handler invoked between two handler
\* invocations of another emission belongs to an emission that a handler of
\* that emission issued, directly or through further handlers, on the same thread
C23_NoInterleavingAcrossThreads ==
    \A i \in 1..Len(et_trace) : \A j \in 1..Len(et_trace) : \A k \in 1..Len(et_trace) :
        (i < j /\ j < k /\ et_trace[i].emission = et_trace[k].emission)
            => \/ et_trace[j].emission = et_trace[i].emission
               \/ /\ et_trace[j].thread = et_trace[i].thread
                  /\ et_trace[j].emission > et_trace[i].emission

\* both threads have emitted on an event with two handlers, and each
\* emission has invoked both
C23_Witness ==
    /\ Len(et_trace) = 4
    /\ et_trace[1].thread # et_trace[3].thread
    /\ et_trace[1].emission = et_trace[2].emission
    /\ et_trace[3].emission = et_trace[4].emission
    /\ et_trace[1].emission # et_trace[3].emission
    /\ et_trace[1].handler # et_trace[2].handler

\* C24: the crash handler's records and counters are updated under mutual
\* exclusion: when handle_crash runs concurrently from several threads for
\* one plugin no update is lost, so once k calls have returned and none is
\* in progress the plugin's crash count and its record list have grown by k
C24_NoLostUpdate ==
    (\A t \in Threads : ct_pc[t] = "idle")
        => /\ crash_counts[CrashingPlugin] = ct_calls.returned
           /\ Len(crash_records[CrashingPlugin]) = ct_calls.returned

\* C25: when handle_crash decides to disable (the plugin is disabled already,
\* or its lifetime crash count has reached auto_disable_threshold, or its
\* crashes of the last hour have reached max_crashes_per_hour), it marks the
\* plugin disabled, returns False and attempts no recovery: the recovery
\* callback is not invoked, the restart counter is unchanged and the
\* record's recovery_attempted flag stays false
C25_DisableMakesNoRecoveryAttempt ==
    \A i \in 1..Len(ch_last.log) :
        LET entry == ch_last.log[i]
            policy == get_plugin_policy(plugin_policies, ch_last.plugin_name)
        IN  (\/ entry.was_disabled
             \/ entry.count >= policy.auto_disable_threshold
             \/ entry.recent >= policy.max_crashes_per_hour)
            => /\ entry.disabled
               /\ entry.returned = FALSE
               /\ ~entry.callback_invoked
               /\ entry.attempts_after = entry.attempts_before
               /\ ~entry.recovery_attempted

\* the third crash of pA within the hour, after two recoveries through its
\* callback, has disabled it
C25_Witness ==
    /\ ch_last.plugin_name = "pA"
    /\ "pA" \in recovery_callbacks
    /\ Len(ch_last.log) = 1
    /\ ~ch_last.log[1].was_disabled
    /\ ch_last.log[1].count = 3
    /\ ch_last.log[1].recent = 3
    /\ ch_last.log[1].attempts_before = 2
    /\ restart_attempts["pA"] = 2
    /\ is_plugin_disabled("pA")

\* the largest max_restarts of the severity policies
LargestMaxRestarts ==
    CHOOSE n \in 0..10 :
        /\ \E sev \in CrashSeverity : severity_policies[sev].max_restarts = n
        /\ \A sev \in CrashSeverity : severity_policies[sev].max_restarts <= n

\* C26: handle_crash invokes the recovery callback only when the sub-policy
\* of the crash's severity allows auto_restart and the restart counter is
\* below its max_restarts, and it increments the counter before each
\* invocation, also when no callback is registered; so the counter never
\* exceeds the largest max_restarts of the policy, and under the default
\* policy the callback is never invoked for HIGH or CRITICAL crashes
C26_RecoveryGated ==
    /\ \A i \in 1..Len(ch_last.log) :
          LET entry == ch_last.log[i]
              policy == get_plugin_policy(plugin_policies, ch_last.plugin_name)
              sp == policy.severity_policies[entry.severity]
              allowed == sp.auto_restart /\ entry.attempts_before < sp.max_restarts
          IN  /\ entry.callback_invoked => allowed
              /\ (entry.recovery_attempted /\ allowed)
                    => entry.attempts_after = entry.attempts_before + 1
              /\ (entry.recovery_attempted /\ ~allowed)
                    => entry.attempts_after = entry.attempts_before
              /\ (ch_last.default_policy /\ entry.severity \in {"high", "critical"})
                    => ~entry.callback_invoked
    /\ \A q \in Plugins : restart_attempts[q] <= LargestMaxRestarts

\* the restart counter of pA has reached the largest max_restarts, and the
\* LOW crash that came then was refused a recovery although pA has a callback
C26_Witness ==
    /\ ch_last.plugin_name = "pA"
    /\ "pA" \in recovery_callbacks
    /\ restart_attempts["pA"] = 5
    /\ Len(ch_last.log) = 1
    /\ ch_last.log[1].severity = "low"
    /\ ch_last.log[1].attempts_before = 5
    /\ ch_last.log[1].recovery_attempted
    /\ ~ch_last.log[1].callback_invoked
    /\ ~ch_last.log[1].disabled

\* C27: when the dependency relation restricted to the requested names is
\* acyclic, resolve_load_order(names) returns every requested name exactly
\* once, also when names has duplicates, each plugin after all of its
\* declared dependencies that are among the requested names; dependencies
\* outside the requested names are ignored
C27_LoadOrder ==
    (rl_last.calls > 0 /\ ~RestrictedCycle(reg_dependencies, rl_last.names)) =>
        /\ ~rl_last.raised
        /\ Range(rl_last.result) = Range(rl_last.names)
        /\ Len(rl_last.result) = Cardinality(Range(rl_last.names))
        /\ \A i \in 1..Len(rl_last.result) : \A j \in 1..Len(rl_last.result) :
               rl_last.result[j] \in get_dependencies(reg_dependencies, rl_last.result[i])
                   => j < i

\* A, which depends on B and on C, was requested twice together with B, and
\* not C: B comes first, A once, and C is left out
C27_Witness ==
    /\ rl_last.calls > 0
    /\ rl_last.names = <<"A", "B", "A">>
    /\ "A" \in DOMAIN reg_dependencies
    /\ reg_dependencies["A"] = {"B", "C"}
    /\ rl_last.result = <<"B", "A">>

\* C28: after unload_plugin(name) returns True, name is in neither the
\* loaded-instance map nor the module map of the manager and owns no handler
\* in its event system; when the plugin is loaded and its cleanup() raises,
\* unload_plugin returns False, the plugin stays loaded and keeps the handlers
\* it owned, and reload_plugin returns False without a call of load_plugin.
C28_UnloadAllOrNothing ==
    /\ (mgr_last.op = "unload_plugin" /\ mgr_last.returned) =>
          /\ mgr_last.plugin_name \notin mgr_loaded
          /\ mgr_last.plugin_name \notin mgr_modules
          /\ mgr_last.plugin_name \notin HandlerOwners(mgr_handlers)
    /\ (mgr_last.op \in {"unload_plugin", "reload_plugin"} /\ mgr_last.was_loaded
            /\ mgr_last.cleanup = "raise") =>
          /\ ~mgr_last.returned
          /\ mgr_last.loads = <<>>
          /\ mgr_last.plugin_name \in mgr_loaded
          /\ mgr_last.plugin_name \in mgr_modules
          /\ mgr_last.owned_handlers =>
                \A e \in EventNames : \E i \in 1..Len(mgr_handlers[e]) :
                    mgr_handlers[e][i].plugin_name = mgr_last.plugin_name

\* an unload that returned True for a plugin that was loaded with handlers
C28_Witness ==
    /\ mgr_last.op = "unload_plugin" /\ mgr_last.returned
    /\ mgr_last.was_loaded /\ mgr_last.owned_handlers

\* a reload that returned False because cleanup() of the loaded plugin raised
C28_WitnessCleanupRaises ==
    /\ mgr_last.op = "reload_plugin" /\ mgr_last.cleanup = "raise"
    /\ mgr_last.was_loaded /\ mgr_last.owned_handlers /\ ~mgr_last.returned

\* the event names of the claim: <phase>_generation_<suffix>
ClaimedEvent(phase, suffix) ==
    [architecture |-> [started |-> "architecture_generation_started",
                       completed |-> "architecture_generation_completed",
                       failed |-> "architecture_generation_failed",
                       exception |-> "architecture_generation_exception"],
     blueprint |-> [started |-> "blueprint_generation_started",
                    completed |-> "blueprint_generation_completed",
                    failed |-> "blueprint_generation_failed",
                    exception |-> "blueprint_generation_exception"],
     draft |-> [started |-> "draft_generation_started",
                completed |-> "draft_generation_completed",
                failed |-> "draft_generation_failed",
                exception |-> "draft_generation_exception"],
     finalization |-> [started |-> "finalization_generation_started",
                       completed |-> "finalization_generation_completed",
                       failed |-> "finalization_generation_failed",
                       exception |-> "finalization_generation_exception"]][phase][suffix]

\* C29: in every generation run that passed validation and the LLM lookup,
\* <phase>_generation_started is emitted before the generation function
\* runs, and exactly one terminal event after it: <phase>_generation_completed
\* if the run succeeded, <phase>_generation_failed or
\* <phase>_generation_exception otherwise, in each of the four phases
C29_StartedThenOneTerminalEvent ==
    /\ gen_last.invoked > 0 =>
          gen_last.emitted[1] = ClaimedEvent(gen_last.phase, "started")
    /\ gen_last.handled =>
          /\ Len(gen_last.emitted) = 2
          /\ gen_last.emitted[1] = ClaimedEvent(gen_last.phase, "started")
          /\ gen_last.emitted[2] \in
                (IF gen_last.returned = "True"
                 THEN {ClaimedEvent(gen_last.phase, "completed")}
                 ELSE {ClaimedEvent(gen_last.phase, "failed"),
                       ClaimedEvent(gen_last.phase, "exception")})

\* C29, amended: in every such run the started event of the phase
\* (architecture_generation_started, blueprint_generation_started,
\* draft_generation_started, finalization_started) is emitted before the
\* generation function runs; after it the completed event of the phase
\* (finalization_completed for finalization) is emitted exactly once if the
\* run returns True, and no event is emitted if it returns False
C29_StartedThenCompletedOnSuccess ==
    /\ gen_last.invoked > 0 =>
          /\ Len(gen_last.emitted) >= 1
          /\ gen_last.emitted[1] = StartedEvent[gen_last.phase]
    /\ (gen_last.started = 1 /\ ~gen_last.handled) =>
          gen_last.emitted = <<StartedEvent[gen_last.phase]>>
    /\ gen_last.handled =>
          gen_last.emitted =
              (IF gen_last.returned = "True"
               THEN <<StartedEvent[gen_last.phase], CompletedEvent[gen_last.phase]>>
               ELSE <<StartedEvent[gen_last.phase]>>)

\* a finalization run whose generation function failed has returned False
C29_Witness ==
    /\ gen_last.handled
    /\ gen_last.phase = "finalization"
    /\ gen_last.invoked = 1
    /\ gen_last.returned = "False"
    /\ gen_last.emitted = <<"finalization_started">>

\* an architecture run that succeeded
C29_WitnessSuccess ==
    /\ gen_last.handled
    /\ gen_last.phase = "architecture"
    /\ gen_last.returned = "True"
    /\ Len(gen_last.emitted) = 2

\* C30: after a call of generate_novel_architecture, generate_chapter_blueprint,
\* generate_chapter_draft or finalize_chapter has returned, whether it ended
\* at the validation, at the LLM lookup, or with a success or a failure of
\* the generation function, get_current_task() is None
C30_NoTaskAfterReturn ==
    (gen_last.phase \in Phases /\ gen_last.returned # "none")
    => get_current_task = "None"

\* a run that was dispatched and failed has returned False
C30_Witness ==
    /\ gen_last.phase \in Phases
    /\ gen_last.returned = "False"
    /\ gen_last.invoked = 1
    /\ gen_last.handled

\* a call that ended at the validation of its params
C30_WitnessValidation ==
    /\ gen_last.phase \in Phases
    /\ gen_last.returned = "False"
    /\ ~gen_last.validated

\* a call that ended at the LLM lookup
C30_WitnessNoConfig ==
    /\ gen_last.phase \in Phases
    /\ gen_last.returned = "False"
    /\ gen_last.validated
    /\ gen_last.lookups = 1
    /\ gen_last.invoked = 0

\* a run that succeeded
C30_WitnessSuccess ==
    /\ gen_last.phase \in Phases
    /\ gen_last.returned = "True"

\* C31: after any sequence of create_new_project and load_project operations
\* the project history has at most 10 entries, no two entries with the same
\* path, and is ordered newest first: a successful create or load puts its
\* project at index 0 in front of the other entries in their earlier order,
\* and an operation that fails or closes the project leaves the history as it was
C31_HistoryBoundedDistinctNewestFirst ==
    /\ Len(nv_project_history) <= 10
    /\ \A i, j \in 1..Len(nv_project_history) :
          i # j => nv_project_history[i].path # nv_project_history[j].path
    /\ (nv_last.op \in {"create_new_project", "load_project"}
            /\ nv_last.returned = "True") =>
          /\ nv_project_history # <<>>
          /\ nv_project_history[1].path = nv_last.path
          /\ \A i \in 2..Len(nv_project_history) :
                \E k \in 1..Len(nv_last.history_before) :
                   /\ nv_last.history_before[k] = nv_project_history[i]
                   /\ i < Len(nv_project_history) =>
                         \E l \in (k + 1)..Len(nv_last.history_before) :
                            nv_last.history_before[l] = nv_project_history[i + 1]
    /\ (nv_last.op # "none" /\ nv_last.returned = "False") =>
          nv_project_history = nv_last.history_before

\* an eleventh project was opened after an earlier project was opened again
C31_Witness ==
    /\ Len(nv_project_history) = 10
    /\ nv_opened = 11
    /\ nv_reopens = 1
    /\ nv_last.returned = "True"
    /\ Len(nv_last.history_before) = 10

\* C32: the novel controller has one active project at most; a load_project
\* that succeeds calls save_current_project on the project active before and
\* only then makes the project at the path the active one; a load_project
\* that fails on a missing path or on a missing, unparsable or empty
\* project_config.json leaves the active project and the history as they
\* were and the controller in state error
C32_LoadSavesThenSwitchesOrChangesNothing ==
    /\ (nv_last.op = "load_project" /\ nv_last.returned = "True") =>
          /\ nv_current_project.path = nv_last.path
          /\ IF nv_last.current_before = NoProject
             THEN nv_last.steps[1] = [step |-> "activate", path |-> nv_last.path]
             ELSE /\ nv_last.steps[1] =
                        [step |-> "save", path |-> nv_last.current_before.path]
                  /\ nv_last.steps[2] = [step |-> "activate", path |-> nv_last.path]
    /\ (nv_last.op = "load_project"
            /\ nv_last.content \in {"path_missing", "config_missing", "unparsable",
                                     "falsy"}) =>
          /\ nv_last.returned = "False"
          /\ nv_current_project = nv_last.current_before
          /\ nv_project_history = nv_last.history_before
          /\ ctl_state = "error"

\* a project was loaded while another project was the active one
C32_Witness ==
    /\ nv_last.op = "load_project"
    /\ nv_last.returned = "True"
    /\ nv_last.current_before # NoProject
    /\ nv_last.current_before.path # nv_last.path
    /\ Len(nv_last.steps) = 3

\* a load failed on an unparsable project_config.json while a project was active
C32_WitnessFailure ==
    /\ nv_last.op = "load_project"
    /\ nv_last.content = "unparsable"
    /\ nv_last.returned = "False"
    /\ nv_current_project # NoProject
    /\ nv_project_history # <<>>

\* the policy the latest handle_crash call used
C33_PolicyUsed == IF ch_last.default_policy THEN DefaultPolicy ELSE LenientPolicy

\* C33: a step that takes a plugin out of the disabled set (enable_plugin)
\* resets its restart-attempt counter and leaves the crash counts and crash
\* records as they are; and a handle_crash for a plugin that is not disabled
\* and whose lifetime count was already >= auto_disable_threshold, or whose
\* trailing-hour count was already >= max_crashes_per_hour, disables it
\* (again) and returns False
C33_EnableKeepsHistorySoNextCrashDisables ==
    /\ [][\A q \in Plugins :
             (q \in disabled_plugins /\ q \notin disabled_plugins') =>
                 /\ crash_counts' = crash_counts
                 /\ crash_records' = crash_records
                 /\ restart_attempts'[q] = 0
                 /\ disabled_plugins' = disabled_plugins \ {q}]_vars
    /\ [](ch_last.log # <<>> =>
             LET entry == ch_last.log[1]
             IN  (/\ ~entry.was_disabled
                  /\ \/ entry.count - 1 >= C33_PolicyUsed.auto_disable_threshold
                     \/ entry.recent - 1 >= C33_PolicyUsed.max_crashes_per_hour)
                 => (entry.disabled /\ ~entry.returned /\ ~entry.callback_invoked))

\* a plugin that was disabled and enabled again was disabled by its next
\* crash on its lifetime count alone
C33_Witness ==
    /\ ch_last.log # <<>>
    /\ ch_last.default_policy
    /\ ~ch_last.log[1].was_disabled
    /\ ch_last.log[1].disabled
    /\ ch_last.log[1].count - 1 >= DefaultPolicy.auto_disable_threshold
    /\ ch_last.log[1].recent < DefaultPolicy.max_crashes_per_hour

\* the policy of the latest handle_crash call
C34_PolicyUsed ==
    CASE ch_last.policy = "default" -> DefaultPolicy
      [] ch_last.policy = "restarting" -> RestartingPolicy
      [] OTHER -> LenientPolicy

\* C34: the nesting handle_crash -> recovery callback -> reload_plugin ->
\* failed load_plugin -> handle_crash is bounded: every nested call has
\* severity high, a call invokes the callback only while the restart counter
\* is below max_restarts of its severity, and each nested call finds the
\* counter one higher than the call around it; under the default policy (and
\* any policy with the default severity policies) the depth is at most 2
C34_NestingBounded ==
    /\ \A i \in 1..Len(ch_last.log) :
          /\ i > 1 => ch_last.log[i].severity = "high"
          /\ i > 1 => ch_last.log[i - 1].callback_invoked
          /\ i > 1 => ch_last.log[i].attempts_before = ch_last.log[i - 1].attempts_before + 1
          /\ ch_last.log[i].callback_invoked =>
                ch_last.log[i].attempts_before <
                    C34_PolicyUsed.severity_policies[ch_last.log[i].severity].max_restarts
    /\ ch_last.policy \in {"default", "lenient"} => Len(ch_last.log) <= 2
    /\ Len(ch_last.log) <= 1 + C34_PolicyUsed.severity_policies.high.max_restarts

\* under the default policy a reload failed and reported a nested crash
C34_Witness ==
    /\ ch_last.policy = "default"
    /\ Len(ch_last.log) = 2
    /\ ch_last.log[1].callback_invoked
    /\ ~ch_last.log[2].callback_invoked

\* under a policy that restarts after a crash of severity high the nesting
\* went on until the restart counter reached max_restarts
C34_WitnessRestarting ==
    /\ ch_last.policy = "restarting"
    /\ Len(ch_last.log) = 3
    /\ ch_last.log[2].callback_invoked
    /\ ~ch_last.log[3].callback_invoked
    /\ ~ch_last.log[3].disabled

\* what load_plugin returns by its tests of the crash handler, of the loaded
\* map, of the version verdict and by what the plugin's code does
C35_OutcomeWithoutDependencies(e) ==
    /\ ~e.was_disabled
    /\ \/ e.was_loaded
       \/ /\ e.verdict # "none"
          /\ check_version_compatibility(e.verdict)
          /\ e.behaviour = "ok"

\* C35: load_plugin does not consult the dependencies of the plugin: what it
\* returns is the same whether or not the declared dependencies are
\* registered or loaded, and a plugin is loaded whose declared dependency is
\* neither
C35_LoadIgnoresDependencies ==
    \A i \in 1..Len(mgr_last.loads) :
        /\ mgr_last.loads[i].returned = C35_OutcomeWithoutDependencies(mgr_last.loads[i])
        /\ (mgr_last.op = "load_plugin" /\ mgr_last.loads[i].returned) =>
               mgr_last.plugin_name \in mgr_loaded

\* a plugin was loaded while its declared dependency was neither registered
\* nor loaded
C35_Witness ==
    /\ mgr_last.op = "load_plugin"
    /\ Len(mgr_last.loads) = 1
    /\ mgr_last.loads[1].returned
    /\ ~mgr_last.loads[1].was_loaded
    /\ mgr_last.loads[1].missing = {"pB"}
    /\ mgr_last.loads[1].not_loaded = {"pB"}
    /\ mgr_last.plugin_name \in mgr_loaded
    /\ "pB" \notin mgr_loaded

\* a plugin was loaded with its declared dependency registered and loaded
C35_WitnessSatisfied ==
    /\ mgr_last.op = "load_plugin"
    /\ Len(mgr_last.loads) = 1
    /\ mgr_last.loads[1].returned
    /\ ~mgr_last.loads[1].was_loaded
    /\ get_plugin_dependencies(mgr_registry, mgr_last.plugin_name) = {"pB"}
    /\ mgr_last.loads[1].missing = {}
    /\ mgr_last.loads[1].not_loaded = {}

\* the handlers the plugin owns in the event system
C36_HandlersOwned == lt_handlers["app.startup"] + lt_handlers["app.shutdown"]
    + lt_handlers["plugin.loaded"] + lt_handlers["plugin.unloaded"]
    + lt_handlers["config.change"]

\* C36: when load_plugin(name) is called from two threads at the same time,
\* the plugin is instantiated and initialized at most once, and its listener
\* is registered at most once: 5 handlers, one on each common event
C36_LoadedAtMostOnce ==
    /\ lt_counts.instantiated <= 1
    /\ lt_counts.initialized <= 1
    /\ lt_counts.listeners <= 1
    /\ C36_HandlersOwned <= 5
    /\ \A e \in common_events : lt_handlers[e] <= 1

\* a step in which handle_crash disables plugin p and no recovery reloaded it
C37_Disables(p) ==
    /\ p \notin disabled_plugins
    /\ p \in disabled_plugins'
    /\ mgr_last'.op \in {"handle_crash", "call_plugin_service"}
    /\ mgr_last'.loads = <<>>

\* a step in which a disabled plugin loses its place in the loaded set or
\* its handlers
C37_Leaves(p) ==
    /\ p \in disabled_plugins
    /\ \/ p \in mgr_loaded /\ p \notin mgr_loaded'
       \/ p \in HandlerOwners(mgr_handlers) /\ p \notin HandlerOwners(mgr_handlers')

\* C37: a handle_crash that disables a plugin changes the crash handler
\* only: the loaded set, the modules, the registry and the handler lists of
\* the manager stay as they were. A disabled plugin that is loaded is refused
\* its services, is still invoked for the events it has handlers on, and
\* leaves the loaded set and the handler lists by unload_plugin only
C37_DisableLeavesManagerAlone ==
    /\ [][\A p \in Plugins :
            /\ C37_Disables(p) =>
                  /\ mgr_loaded' = mgr_loaded
                  /\ mgr_modules' = mgr_modules
                  /\ mgr_handlers' = mgr_handlers
                  /\ mgr_registry' = mgr_registry
            /\ C37_Leaves(p) =>
                  /\ mgr_last'.op = "unload_plugin"
                  /\ mgr_last'.plugin_name = p]_vars
    /\ [](\A p \in Plugins :
            /\ (mgr_last.op = "call_plugin_service" /\ mgr_last.plugin_name = p
                    /\ mgr_last.was_disabled)
                  => mgr_last.error = "disabled" /\ mgr_last.service_runs = 0
            /\ (mgr_last.op = "emit_event" /\ p \in disabled_plugins
                    /\ p \in HandlerOwners(mgr_handlers))
                  => \E i \in 1..Len(mgr_last.invoked) : mgr_last.invoked[i] = p)

\* the latest handle_crash disabled a loaded plugin that owns handlers
C37_Witness ==
    /\ mgr_last.op \in {"handle_crash", "call_plugin_service"}
    /\ mgr_last.loads = <<>>
    /\ ~mgr_last.was_disabled
    /\ mgr_last.plugin_name \in disabled_plugins
    /\ mgr_last.plugin_name \in mgr_loaded
    /\ mgr_last.plugin_name \in HandlerOwners(mgr_handlers)

\* an event was delivered to a plugin that is disabled
C37_WitnessEvent ==
    /\ mgr_last.op = "emit_event"
    /\ \E i \in 1..Len(mgr_last.invoked) : mgr_last.invoked[i] \in disabled_plugins

\* how many times handler id was invoked in the latest emission
C38_Invocations(id) ==
    Cardinality({i \in 1..Len(dp_last.invoked) : dp_last.invoked[i] = id})

\* C38: in one emission every handler that was registered for the event when
\* the dispatch started is invoked exactly once, even if a handler registers
\* or unregisters handlers for the same event while the dispatch is running
C38_StartHandlersInvokedOnce ==
    /\ \A i \in 1..Len(dp_last.start) : C38_Invocations(dp_last.start[i].id) <= 1
    /\ dp_last.done =>
          \A i \in 1..Len(dp_last.start) : C38_Invocations(dp_last.start[i].id) = 1

\* C39: every public asynchronous operation of the ConfigController
\* (initialize, load_configuration, save_configuration,
\* test_llm_configuration, test_embedding_configuration) leaves the
\* controller in a state that is not PROCESSING when it returns, also when
\* the model has no load_configuration or no save_config
C39_NeverLeftProcessing == ctl_state \in {"idle", "completed", "error"}

\* the current LLM configuration is absent, or is an entry of the cache
C40_CurrentIsCached ==
    \/ tl_current_llm_config = NoLLMConfig
    \/ \E n \in Range(tl_config_cache.names) :
          tl_config_cache.configs[n] = tl_current_llm_config

\* C40: after any sequence of load_configuration, save_configuration,
\* add_llm_config, remove_llm_config, update_llm_config and
\* set_current_llm_config the current LLM configuration is absent or is an
\* entry of the cached llm_configs; set_current_llm_config with a name that
\* is not in the cache leaves it unchanged
C40_CurrentAlwaysCached ==
    /\ [](C40_CurrentIsCached)
    /\ [][\A n \in TestConfigNames :
            (n \notin Range(tl_config_cache.names) /\ set_current_llm_config(n))
               => tl_current_llm_config' = tl_current_llm_config]_vars

====
